---------------------------- MODULE Spec2Model ----------------------------
(***************************************************************************)
(* A model of WebPy's request routing, middleware dispatch, cache, CSP     *)
(* hook and WebSocket server:                                              *)
(*   router.py      Router.route / Router.match / Router.methods           *)
(*   middleware.py  Middleware.before / after / process / filter           *)
(*   webpy.py       WebPy.route (the middleware wrapper), WebPy.error      *)
(*   blueprint.py   Blueprint.__init__, Blueprint.route (the render-       *)
(*                  patching wrapper)                                      *)
(*   core.py        WebPyCore.route / error / process / deliver / warn     *)
(*   broadcast.py   Response.__init__ / Response.send                      *)
(*   cache.py       MemoryCache.set / get / delete / clear, Cache.cached   *)
(*   csp.py         the post-hook of CSP.__init__                          *)
(*   websocket.py   WebSocket.emit / WebSocket.handle                      *)
(*                                                                         *)
(* Text (templates, request paths, captured values) is a sequence of       *)
(* one-character strings, so that the placeholder substitution and the     *)
(* regular-expression match of router.py are computed character by         *)
(* character, as the code computes them.                                   *)
(***************************************************************************)
EXTENDS Integers, Sequences, FiniteSets, TLC

VARIABLES
    routes,    \* Router.routes: insertion-ordered dict, as a sequence of entries with unique "path" keys
    regLog,    \* history: every completed registration call, in call order
    guards,    \* Middleware.guards: the pre-hooks, in registration order
    filters,   \* Middleware.filters: the post-hooks, in registration order
    errors,    \* WebPyCore.errors: status code -> custom error handler
    serving,   \* TRUE once WebPyCore.run has entered serve_forever
    last,      \* the observable outcome of the latest Router.match / WebPyCore.process call
    render,    \* the attribute "render" of class Response: absent, or the function it holds
    workers,   \* the request threads of ThreadingHTTPServer inside Blueprint.route's wrapper
    registry,  \* Blueprint.registry: blueprint name -> blueprint
    made,      \* history: every Blueprint construction, in call order
    cache,     \* MemoryCache.cache: key -> entry
    clock,     \* time.time(), as a logical clock
    sets,      \* history: per key, the latest set, delete or clear that touched it
    got,       \* the outcome of the latest MemoryCache.get or cached-function call
    csp,       \* the CSP object: rules (directive -> list of sources) and nonce
    cspHooks,  \* the request threads inside CSP's post-hook
    tokens,    \* how many values secrets.token_urlsafe has handed out
    clients,   \* WebSocket.registry["clients"]: the entries of the dict, in insertion order
    sockets,   \* the client sockets: the state of the peer, and closed by the server or not
    handling,  \* the client threads running WebSocket.handle
    emitter    \* the thread calling WebSocket.emit

blueprintVars == <<render, workers, registry, made>>
cacheVars == <<cache, clock, sets, got>>
cspVars == <<csp, cspHooks, tokens>>
wsVars == <<clients, sockets, handling, emitter>>
vars == <<routes, regLog, guards, filters, errors, serving, last,
          render, workers, registry, made, cache, clock, sets, got,
          csp, cspHooks, tokens, clients, sockets, handling, emitter>>

----------------------------------------------------------------------------
(* Bounds of the model.                                                    *)

MaxRegs == 3        \* route registrations per run of the router specification
MaxHooks == 4       \* hooks (pre plus post) per run of the pipeline specification
MaxSetup == 2       \* route, hook and error-handler registrations per run of the dispatch specification
MaxBlueprints == 3  \* Blueprint constructions per run of the blueprint specification
MaxClock == 2       \* seconds the clock advances one at a time, before and after its long step
MaxNonces == 3      \* responses that pass CSP's post-hook per run of the CSP specification

----------------------------------------------------------------------------
(* Characters.                                                             *)

NL == "\n"
Digits == {"0", "1", "2", "3", "4", "5", "6", "7", "8", "9"}
Letters == {"a", "b", "c", "d", "e", "f", "h", "i", "l", "m", "n", "o", "p",
            "r", "s", "t", "u", "w", "x"}
\* \w of Python's re module, over the characters the model uses
WordChars == Letters \cup Digits \cup {"_"}

\* str.startswith
StartsWith(s, prefix) ==
    /\ Len(s) >= Len(prefix)
    /\ SubSeq(s, 1, Len(prefix)) = prefix

----------------------------------------------------------------------------
(* Router.route, lines 59-64: the placeholder substitution                 *)
(*   re.sub(r"<(\w+):(\w+)>", r"(?P<\1>[^/]+)", path)                      *)
(* followed by re.compile(f"^{pattern}$").  A compiled pattern is a        *)
(* sequence of items: a literal character, "." (any character but a        *)
(* newline) or a named group (?P<name>[^/]+).                              *)

\* the length of the longest run of \w characters of t that starts at i
RECURSIVE WordRun(_, _)
WordRun(t, i) ==
    IF i <= Len(t) /\ t[i] \in WordChars THEN 1 + WordRun(t, i + 1) ELSE 0

\* does <(\w+):(\w+)> match t at position i?  \w+ is greedy and ":" and ">"
\* are not \w, so the greedy runs are the only candidates.
PlaceholderAt(t, i) ==
    /\ i <= Len(t)
    /\ t[i] = "<"
    /\ LET n1 == WordRun(t, i + 1)
       IN /\ n1 >= 1
          /\ i + 1 + n1 <= Len(t)
          /\ t[i + 1 + n1] = ":"
          /\ LET n2 == WordRun(t, i + 2 + n1)
             IN /\ n2 >= 1
                /\ i + 2 + n1 + n2 <= Len(t)
                /\ t[i + 2 + n1 + n2] = ">"

\* group 1 of the placeholder at i (the text before the colon), and the
\* position just past the placeholder
PlaceholderName(t, i) == SubSeq(t, i + 1, i + WordRun(t, i + 1))
PlaceholderEnd(t, i) ==
    LET n1 == WordRun(t, i + 1)
    IN i + 3 + n1 + WordRun(t, i + 2 + n1)

LitItem(c) == [k |-> "lit", c |-> c, name |-> <<>>]
AnyItem == [k |-> "any", c |-> ".", name |-> <<>>]
GroupItem(n) == [k |-> "grp", c |-> "", name |-> n]

\* the items of the regular expression built from t[i..]: each placeholder
\* becomes one named group whatever its second word says, every other
\* character stays regular-expression source text
RECURSIVE CompileFrom(_, _)
CompileFrom(t, i) ==
    IF i > Len(t) THEN <<>>
    ELSE IF PlaceholderAt(t, i)
         THEN <<GroupItem(PlaceholderName(t, i))>> \o CompileFrom(t, PlaceholderEnd(t, i))
         ELSE IF t[i] = "."
              THEN <<AnyItem>> \o CompileFrom(t, i + 1)
              ELSE <<LitItem(t[i])>> \o CompileFrom(t, i + 1)

Compile(t) == CompileFrom(t, 1)

GroupNames(rx) == {rx[i].name : i \in {j \in 1..Len(rx) : rx[j].k = "grp"}}
GroupCount(rx) == Cardinality({j \in 1..Len(rx) : rx[j].k = "grp"})

\* re.compile raises re.error for a group name that is no identifier or that
\* is used twice
CompileRaises(t) ==
    LET rx == Compile(t)
    IN \/ GroupCount(rx) # Cardinality(GroupNames(rx))
       \/ \E n \in GroupNames(rx) : n[1] \in Digits

----------------------------------------------------------------------------
(* pattern.match(path) of Router.match line 113: a backtracking match of   *)
(* ^items$ against the whole text, groups greedy.                          *)

NoMatch == [ok |-> FALSE, caps |-> {}]

\* "$" matches at the end of the text and just before a final newline
EndAnchor(s, j) ==
    \/ j = Len(s) + 1
    \/ j = Len(s) /\ s[j] = NL

\* the length of the longest run of characters other than "/" from j
RECURSIVE SegRun(_, _)
SegRun(s, j) ==
    IF j <= Len(s) /\ s[j] # "/" THEN 1 + SegRun(s, j + 1) ELSE 0

RECURSIVE MatchFrom(_, _, _, _)
RECURSIVE TryGroup(_, _, _, _, _)

\* the group rx[i] takes n characters from j, longest first
TryGroup(rx, i, s, j, n) ==
    IF n < 1 THEN NoMatch
    ELSE LET r == MatchFrom(rx, i + 1, s, j + n)
         IN IF r.ok
            THEN [ok |-> TRUE,
                  caps |-> r.caps \cup {<<rx[i].name, SubSeq(s, j, j + n - 1)>>}]
            ELSE TryGroup(rx, i, s, j, n - 1)

MatchFrom(rx, i, s, j) ==
    IF i > Len(rx)
    THEN IF EndAnchor(s, j) THEN [ok |-> TRUE, caps |-> {}] ELSE NoMatch
    ELSE IF rx[i].k = "grp"
         THEN TryGroup(rx, i, s, j, SegRun(s, j))
         ELSE IF /\ j <= Len(s)
                 /\ IF rx[i].k = "lit" THEN s[j] = rx[i].c ELSE s[j] # NL
              THEN MatchFrom(rx, i + 1, s, j + 1)
              ELSE NoMatch

PatternMatch(rx, s) == MatchFrom(rx, 1, s, 1)

----------------------------------------------------------------------------
(* Python values handed to handlers, and the route table.                  *)

\* a Python value handed to a handler: its type, and its text (a str) or
\* its number (an int); re's groupdict returns a str for every group
StrValue(s) == [type |-> "str", text |-> s, num |-> 0]

\* match.groupdict(): group name -> captured text, as a set of <<name, value>>
GroupDict(caps) == {<<c[1], StrValue(c[2])>> : c \in caps}

\* method in methods, for a list of method names
InList(m, ms) == \E i \in 1..Len(ms) : ms[i] = m

NoHandler == [id |-> 0, kind |-> "none"]

\* the dict entry Router.route's decorator stores under the key path
RouteEntry(path, methods, handler) ==
    [path |-> path, handler |-> handler, methods |-> methods, pattern |-> Compile(path)]

KeyIndex(rts, path) == {i \in 1..Len(rts) : rts[i].path = path}

\* DictStore for a table kept as a list: every store appends
DictStoreAppends(rts, path, entry) == Append(rts, entry)

\* cls.routes[path] = {...}: a new key goes to the end of the dict, an
\* existing key keeps its place and gets the new value
DictStore(rts, path, entry) ==
    IF KeyIndex(rts, path) = {}
    THEN Append(rts, entry)
    ELSE [i \in 1..Len(rts) |-> IF rts[i].path = path THEN entry ELSE rts[i]]

\* RouterRoute for a table that keeps the first registration of a template
RouterRouteKeepsFirst(rts, path, methods, handler) ==
    IF KeyIndex(rts, path) = {}
    THEN Append(rts, RouteEntry(path, methods, handler))
    ELSE rts

\* Router.route(path, methods)(handler)
RouterRoute(rts, path, methods, handler) ==
    DictStore(rts, path, RouteEntry(path, methods, handler))

NoRoute == [found |-> FALSE, handler |-> NoHandler, params |-> {}]

\* EntryAccepts without the method test of line 114
EntryAcceptsAnyMethod(entry, path, method) ==
    PatternMatch(entry.pattern, path).ok

\* Router.match line 114: the pattern matches and the method is allowed
EntryAccepts(entry, path, method) ==
    PatternMatch(entry.pattern, path).ok /\ InList(method, entry.methods)

\* Router.match lines 105-125: the loop over cls.routes.values() from entry i
RECURSIVE MatchLoop(_, _, _, _)
MatchLoop(rts, i, path, method) ==
    IF i > Len(rts) THEN NoRoute
    ELSE IF EntryAccepts(rts[i], path, method)
         THEN [found |-> TRUE,
               handler |-> rts[i].handler,
               params |-> GroupDict(PatternMatch(rts[i].pattern, path).caps)]
         ELSE MatchLoop(rts, i + 1, path, method)

RouterMatch(rts, path, method) == MatchLoop(rts, 1, path, method)

\* MethodsLoop returning an empty list when no pattern matches
RECURSIVE MethodsLoopEmptyDefault(_, _, _)
MethodsLoopEmptyDefault(rts, i, path) ==
    IF i > Len(rts) THEN <<>>
    ELSE IF PatternMatch(rts[i].pattern, path).ok
         THEN rts[i].methods
         ELSE MethodsLoopEmptyDefault(rts, i + 1, path)

\* Router.methods lines 143-152: the methods of the first entry whose pattern
\* matches, ["GET"] when none does
RECURSIVE MethodsLoop(_, _, _)
MethodsLoop(rts, i, path) ==
    IF i > Len(rts) THEN <<"GET">>
    ELSE IF PatternMatch(rts[i].pattern, path).ok
         THEN rts[i].methods
         ELSE MethodsLoop(rts, i + 1, path)

RouterMethods(rts, path) == MethodsLoop(rts, 1, path)

----------------------------------------------------------------------------
(* The outcome of the latest call, as a caller or a client observes it.    *)

Idle ==
    [op |-> "none", path |-> <<>>, method |-> "", found |-> FALSE,
     handler |-> NoHandler, params |-> {}, allowed |-> <<>>, calls |-> <<>>,
     sent |-> <<>>, raised |-> "none"]

\* class Response of broadcast.py defines no attribute named render
NoRender == "absent"

\* the request threads, and a thread that is not inside the wrapper
Threads == {1, 2}
IdleWorker == [pc |-> "idle", original |-> NoRender, seen |-> <<>>]

\* Blueprint.registry starts as the empty dict
BlueprintNames == {"api", "admin"}
NoBlueprint == 0

\* MemoryCache.cache starts as the empty dict
CacheKeys == {"f:(1,):{}", "f:(2,):{}"}
NoEntry == [present |-> FALSE, value |-> "None", expires |-> 0]
NeverSet == [op |-> "none", value |-> "None", at |-> 0, timeout |-> 0]
NoCall == [op |-> "none", key |-> "", result |-> "None", ran |-> FALSE,
           fresh |-> FALSE, stored |-> "None"]

\* csp.py lines 27-38: the rule lists the hook rewrites, and the nonce.  A
\* source is 0 for 'self' and n > 0 for 'nonce-' followed by the n-th token.
CspKeys == <<"script-src", "style-src">>
NewCsp == [rules |-> [k \in {"script-src", "style-src"} |-> <<0>>], nonce |-> 0]
IdleHook == [pc |-> "idle", nonce |-> 0, key |-> 0,
             policy |-> [k \in {"script-src", "style-src"} |-> {}], exposed |-> 0]

\* the clients that connect to the WebSocket server, and the threads
WsClients == {1, 2}
NewSocket == [peer |-> "up", closed |-> FALSE]
NewHandling == [pc |-> "new", why |-> "none"]
IdleEmitter == [pc |-> "idle", used |-> 0, pos |-> 0, left |-> 0, cur |-> 0,
                disconnected |-> <<>>, index |-> 0, raised |-> "none",
                atCall |-> {}, tried |-> <<>>]

Init ==
    /\ csp = NewCsp
    /\ cspHooks = [t \in Threads |-> IdleHook]
    /\ tokens = 0
    /\ clients = <<>>
    /\ sockets = [c \in WsClients |-> NewSocket]
    /\ handling = [c \in WsClients |-> NewHandling]
    /\ emitter = IdleEmitter
    /\ routes = <<>>
    /\ regLog = <<>>
    /\ guards = <<>>
    /\ filters = <<>>
    /\ errors = [s \in {404, 500} |-> "absent"]
    /\ serving = FALSE
    /\ last = Idle
    /\ render = NoRender
    /\ workers = [t \in Threads |-> IdleWorker]
    /\ registry = [n \in BlueprintNames |-> NoBlueprint]
    /\ made = <<>>
    /\ cache = [k \in CacheKeys |-> NoEntry]
    /\ clock = 0
    /\ sets = [k \in CacheKeys |-> NeverSet]
    /\ got = NoCall

----------------------------------------------------------------------------
(* Registration.  The decorators run while the application module is       *)
(* imported, before WebPyCore.run blocks in serve_forever.                 *)

\* Router.route(path, methods)(handler) for a handler of the given kind:
\* re.compile raises before the decorator exists, else the dict is updated
Register(path, methods, kind) ==
    /\ ~serving
    /\ IF CompileRaises(path)
       THEN /\ last' = [Idle EXCEPT !.op = "route", !.path = path, !.raised = "re.error"]
            /\ UNCHANGED <<routes, regLog>>
       ELSE LET handler == [id |-> Len(regLog) + 1, kind |-> kind]
            IN /\ routes' = RouterRoute(routes, path, methods, handler)
               /\ regLog' = Append(regLog, [path |-> path, methods |-> methods,
                                            handler |-> handler])
               /\ last' = [Idle EXCEPT !.op = "route", !.path = path]
    /\ UNCHANGED <<guards, filters, errors, serving>>
    /\ UNCHANGED <<blueprintVars, cacheVars, cspVars, wsVars>>

\* WebPyCore.route(pattern, methods)(handler): the handler itself is stored
CoreRoute(path, methods) == Register(path, methods, "core")

\* WebPyCore.run: from here on requests are served
Run ==
    /\ ~serving
    /\ serving' = TRUE
    /\ last' = Idle
    /\ UNCHANGED <<routes, regLog, guards, filters, errors>>
    /\ UNCHANGED <<blueprintVars, cacheVars, cspVars, wsVars>>

\* Match for a router that moves the entry it returns to the front of the table
MatchMovesToFront(path, method) ==
    /\ serving
    /\ LET r == RouterMatch(routes, path, method)
           hit == CHOOSE i \in 0..Len(routes) :
                      IF r.found THEN i > 0 /\ routes[i].handler = r.handler ELSE i = 0
       IN /\ last' = [Idle EXCEPT !.op = "match", !.path = path, !.method = method,
                                  !.found = r.found, !.handler = r.handler,
                                  !.params = r.params]
          /\ routes' = IF hit = 0 THEN routes
                       ELSE <<routes[hit]>> \o SubSeq(routes, 1, hit - 1)
                                \o SubSeq(routes, hit + 1, Len(routes))
    /\ UNCHANGED <<regLog, guards, filters, errors, serving>>
    /\ UNCHANGED <<blueprintVars, cacheVars, cspVars, wsVars>>

\* a call of Router.match(path, method)
Match(path, method) ==
    /\ serving
    /\ LET r == RouterMatch(routes, path, method)
       IN last' = [Idle EXCEPT !.op = "match", !.path = path, !.method = method,
                               !.found = r.found, !.handler = r.handler,
                               !.params = r.params]
    /\ UNCHANGED <<routes, regLog, guards, filters, errors, serving>>
    /\ UNCHANGED <<blueprintVars, cacheVars, cspVars, wsVars>>

\* a call of Router.methods(path)
MethodsQuery(path) ==
    /\ serving
    /\ last' = [Idle EXCEPT !.op = "methods", !.path = path,
                            !.allowed = RouterMethods(routes, path)]
    /\ UNCHANGED <<routes, regLog, guards, filters, errors, serving>>
    /\ UNCHANGED <<blueprintVars, cacheVars, cspVars, wsVars>>

----------------------------------------------------------------------------
(* Middleware.  A hook is known by what it returns when called: None,      *)
(* True, False, 0 (falsy, but not False), or it raises.  A hook or handler *)
(* that completes leaves its mark on the response object it was given.     *)

HookRets == {"None", "True", "False", "Zero", "raise"}

\* Response.__init__: status 200, nothing written yet
NewResponse == [status |-> 200, marks |-> <<>>]

Event(f, n, out) == [f |-> f, n |-> n, out |-> out]
Marked(resp, f, n) == [resp EXCEPT !.marks = Append(@, <<f, n>>)]

\* the attributes of a Middleware object: those __init__ assigns and the
\* methods of the class
MiddlewareAttributes ==
    {"app", "guards", "filters", "before", "after", "process", "filter", "use"}

\* main.py lines 273-275: @app.route(path) above @middleware.exclude.  The
\* decorator expressions are evaluated before anything is registered, and
\* looking up a name the object does not have raises AttributeError.
Exclude(path) ==
    /\ ~serving
    /\ "exclude" \notin MiddlewareAttributes
    /\ last' = [Idle EXCEPT !.op = "exclude", !.path = path, !.raised = "AttributeError"]
    /\ UNCHANGED <<routes, regLog, guards, filters, errors, serving>>
    /\ UNCHANGED <<blueprintVars, cacheVars, cspVars, wsVars>>

\* a call middleware.reset(): the object has no such attribute either
Reset ==
    /\ "reset" \notin MiddlewareAttributes
    /\ last' = [Idle EXCEPT !.op = "reset", !.raised = "AttributeError"]
    /\ UNCHANGED <<routes, regLog, guards, filters, errors, serving>>
    /\ UNCHANGED <<blueprintVars, cacheVars, cspVars, wsVars>>

\* Middleware.before / Middleware.use: guards.append(handler)
Before(ret) ==
    /\ ~serving
    /\ guards' = Append(guards, ret)
    /\ last' = [Idle EXCEPT !.op = "before"]
    /\ UNCHANGED <<routes, regLog, filters, errors, serving>>
    /\ UNCHANGED <<blueprintVars, cacheVars, cspVars, wsVars>>

\* Middleware.after: filters.append(handler)
After(ret) ==
    /\ ~serving
    /\ filters' = Append(filters, ret)
    /\ last' = [Idle EXCEPT !.op = "after"]
    /\ UNCHANGED <<routes, regLog, guards, errors, serving>>
    /\ UNCHANGED <<blueprintVars, cacheVars, cspVars, wsVars>>

\* GuardHalts with a truthiness test, "if not result", in place of "is False"
GuardHaltsOnFalsy(ret) == ret \in {"False", "None", "Zero"}

\* Middleware.process line 85: result is False
GuardHalts(ret) == ret = "False"

\* FilterHalts for a loop that never stops early
FilterNeverHalts(ret) == FALSE

\* Middleware.filter line 109: result is False
FilterHalts(ret) == ret = "False"

\* Middleware.process lines 82-89: the loop over self.guards from hook i
RECURSIVE ProcessLoop(_, _)
ProcessLoop(i, resp) ==
    IF i > Len(guards) THEN [calls |-> <<>>, resp |-> resp, result |-> "True"]
    ELSE LET ev == Event("guard", i, guards[i])
         IN IF guards[i] = "raise"
            THEN [calls |-> <<ev>>, resp |-> resp, result |-> "raise"]
            ELSE IF GuardHalts(guards[i])
                 THEN [calls |-> <<ev>>, resp |-> Marked(resp, "guard", i), result |-> "False"]
                 ELSE LET rest == ProcessLoop(i + 1, Marked(resp, "guard", i))
                      IN [calls |-> <<ev>> \o rest.calls, resp |-> rest.resp,
                          result |-> rest.result]

\* MiddlewareProcess for a chain that signals an abort by raising
MiddlewareProcessRaisesOnFalse(resp) ==
    LET r == ProcessLoop(1, resp)
        result == IF r.result = "False" THEN "raise" ELSE r.result
    IN [calls |-> <<Event("Middleware.process", 0, result)>> \o r.calls,
        resp |-> r.resp, result |-> result]

\* Middleware.process(request, response)
MiddlewareProcess(resp) ==
    LET r == ProcessLoop(1, resp)
    IN [calls |-> <<Event("Middleware.process", 0, r.result)>> \o r.calls,
        resp |-> r.resp, result |-> r.result]

\* Middleware.filter lines 106-113: the loop over self.filters from hook i
RECURSIVE FilterLoop(_, _)
FilterLoop(i, resp) ==
    IF i > Len(filters) THEN [calls |-> <<>>, resp |-> resp, result |-> "True"]
    ELSE LET ev == Event("filter", i, filters[i])
         IN IF filters[i] = "raise"
            THEN [calls |-> <<ev>>, resp |-> resp, result |-> "raise"]
            ELSE IF FilterHalts(filters[i])
                 THEN [calls |-> <<ev>>, resp |-> Marked(resp, "filter", i), result |-> "False"]
                 ELSE LET rest == FilterLoop(i + 1, Marked(resp, "filter", i))
                      IN [calls |-> <<ev>> \o rest.calls, resp |-> rest.resp,
                          result |-> rest.result]

\* Middleware.filter(request, response)
MiddlewareFilter(resp) ==
    LET r == FilterLoop(1, resp)
    IN [calls |-> <<Event("Middleware.filter", 0, r.result)>> \o r.calls,
        resp |-> r.resp, result |-> r.result]

----------------------------------------------------------------------------
(* What Router.match hands back is the callable that was registered: the   *)
(* handler itself (WebPyCore.route), WebPy.route's wrapper or              *)
(* Blueprint.route's wrapper.  A call yields the calls made, the response  *)
(* object as left, and whether an exception came out.                      *)

HandlerBehaviours == {"ok", "raise"}

\* CallHandler for a call that swallows the handler's exception
CallHandlerSwallows(handler, hb, resp) ==
    [calls |-> <<Event("handler", handler.id, hb)>>,
     resp |-> IF hb = "ok" THEN Marked(resp, "handler", handler.id) ELSE resp,
     raised |-> FALSE]

\* the user's handler function, called with the match's parameters
CallHandler(handler, hb, resp) ==
    [calls |-> <<Event("handler", handler.id, hb)>>,
     resp |-> IF hb = "ok" THEN Marked(resp, "handler", handler.id) ELSE resp,
     raised |-> hb = "raise"]

\* Proceed for a wrapper that calls the handler whatever process returned
ProceedAlways(result) == TRUE

\* webpy.py line 114: if self.middleware.process(request, response)
Proceed(result) == result = "True"

\* WebPyWrapper for a wrapper that runs the post-hooks before the handler
WebPyWrapperFiltersFirst(handler, hb, resp) ==
    LET pre == MiddlewareProcess(resp)
    IN IF pre.result = "raise"
       THEN [calls |-> pre.calls, resp |-> pre.resp, raised |-> TRUE]
       ELSE IF Proceed(pre.result)
            THEN LET post == MiddlewareFilter(pre.resp)
                     run == CallHandler(handler, hb, post.resp)
                 IN IF post.result = "raise"
                    THEN [calls |-> pre.calls \o post.calls, resp |-> post.resp,
                          raised |-> TRUE]
                    ELSE [calls |-> pre.calls \o post.calls \o run.calls,
                          resp |-> run.resp, raised |-> run.raised]
            ELSE [calls |-> pre.calls, resp |-> pre.resp, raised |-> FALSE]

\* WebPy.route's wrapper, webpy.py lines 109-122
WebPyWrapper(handler, hb, resp) ==
    LET pre == MiddlewareProcess(resp)
    IN IF pre.result = "raise"
       THEN [calls |-> pre.calls, resp |-> pre.resp, raised |-> TRUE]
       ELSE IF Proceed(pre.result)
            THEN LET run == CallHandler(handler, hb, pre.resp)
                     post == MiddlewareFilter(run.resp)
                 IN IF run.raised
                    THEN [calls |-> pre.calls \o run.calls, resp |-> run.resp,
                          raised |-> TRUE]
                    ELSE [calls |-> pre.calls \o run.calls \o post.calls,
                          resp |-> post.resp, raised |-> post.result = "raise"]
            ELSE [calls |-> pre.calls, resp |-> pre.resp, raised |-> FALSE]

\* does class Response have an attribute named render?  broadcast.py
\* defines none; the class has one only when the application assigned it
ResponseHasRender == render # NoRender

\* Blueprint.route's wrapper, blueprint.py lines 90-135: reading
\* response.__class__.render comes first and raises AttributeError when the
\* class has no such attribute
BlueprintWrapper(handler, hb, resp) ==
    IF ResponseHasRender
    THEN CallHandler(handler, hb, resp)
    ELSE [calls |-> <<Event("Response.render", handler.id, "raise")>>, resp |-> resp,
          raised |-> TRUE]

\* core.py line 155: handler(request, response, **parameters)
Invoke(handler, hb, resp) ==
    IF handler.kind = "webpy" THEN WebPyWrapper(handler, hb, resp)
    ELSE IF handler.kind = "blueprint" THEN BlueprintWrapper(handler, hb, resp)
    ELSE CallHandler(handler, hb, resp)

\* WebPy.route(path, methods)(handler): the wrapper is registered
WebPyRoute(path, methods) == Register(path, methods, "webpy")

\* Blueprint.route(path, methods)(handler), blueprint.py lines 83-138
LStripSlash(s) == SubSeq(s, 1 + Cardinality({i \in 1..Len(s) : \A j \in 1..i : s[j] = "/"}), Len(s))
FullPath(prefix, path) == IF path = <<>> THEN prefix ELSE prefix \o <<"/">> \o LStripSlash(path)
BlueprintRoute(prefix, path, methods) == Register(FullPath(prefix, path), methods, "blueprint")

----------------------------------------------------------------------------
(* WebPyCore.error, warn, deliver and process.  The outcome of a step is   *)
(* the calls made, the status lines sent and whether an exception came out.*)

\* a custom error handler writes a body and leaves response.status alone
\* ("body"), sets response.status to its code ("status"), or raises
ErrorBehaviours == {"body", "status", "raise"}

\* WebPyCore.error(status)(handler): cls.errors[status] = handler
Error(status, beh) ==
    /\ ~serving
    /\ errors[status] = "absent"
    /\ errors' = [errors EXCEPT ![status] = beh]
    /\ last' = [Idle EXCEPT !.op = "error"]
    /\ UNCHANGED <<routes, regLog, guards, filters, serving>>
    /\ UNCHANGED <<blueprintVars, cacheVars, cspVars, wsVars>>

Sent(status, via, marks) == [status |-> status, via |-> via, marks |-> marks]

\* Response.send, broadcast.py lines 150-172: the status line is the
\* response object's status attribute
ResponseSend(resp) == Sent(resp.status, "Response.send", resp.marks)

\* WebPyCore.warn(status, message), core.py lines 292-300
Warn(status) ==
    IF errors[status] # "absent"
    THEN LET ev == Event("errorhandler", status, errors[status])
             resp == IF errors[status] = "status"
                     THEN [NewResponse EXCEPT !.status = status]
                     ELSE NewResponse
         IN IF errors[status] = "raise"
            THEN [calls |-> <<ev>>, sent |-> <<>>, raised |-> TRUE]
            ELSE [calls |-> <<ev>>,
                  sent |-> <<ResponseSend(Marked(resp, "errorhandler", status))>>,
                  raised |-> FALSE]
    ELSE [calls |-> <<>>, sent |-> <<Sent(status, "send_error", <<>>)>>, raised |-> FALSE]

\* what open() of the static file does
FileOutcomes == {"found", "missing", "oserror"}

\* WebPyCore.deliver(filepath), core.py lines 177-197
Deliver(file) ==
    LET ev == Event("deliver", 0, file)
        tail == IF file = "found"
                THEN [calls |-> <<>>, sent |-> <<Sent(200, "deliver", <<>>)>>, raised |-> FALSE]
                ELSE IF file = "missing" THEN Warn(404) ELSE Warn(500)
    IN [calls |-> <<ev>> \o tail.calls, sent |-> tail.sent, raised |-> tail.raised]

\* StaticPrefix for a test that takes every path as a static path
StaticPrefixAnyPath == <<"/">>

StaticPrefix == <<"/", "s", "t", "a", "t", "i", "c", "/">>

\* the try block of WebPyCore.process, core.py lines 145-162
ProcessBody(path, method, reqOK, hb, file) ==
    IF ~reqOK
    THEN [calls |-> <<Event("Request", 0, "raise")>>, sent |-> <<>>, raised |-> TRUE,
          match |-> NoRoute]
    ELSE LET matching == RouterMatch(routes, path, method)
         IN IF matching.found
            THEN LET run == Invoke(matching.handler, hb, NewResponse)
                 IN [calls |-> run.calls,
                     sent |-> IF run.raised THEN <<>> ELSE <<ResponseSend(run.resp)>>,
                     raised |-> run.raised,
                     match |-> matching]
            ELSE IF StartsWith(path, StaticPrefix)
                 THEN Deliver(file) @@ [match |-> NoRoute]
                 ELSE Warn(404) @@ [match |-> NoRoute]

\* WebPyCore.process(method), core.py lines 144-165: the except clause calls
\* warn(500); an exception out of that call leaves process
ProcessOutcome(path, method, reqOK, hb, file) ==
    LET body == ProcessBody(path, method, reqOK, hb, file)
        handle == Warn(500)
    IN IF body.raised
       THEN [calls |-> body.calls \o <<Event("except", 500, "warn")>> \o handle.calls,
             sent |-> body.sent \o handle.sent,
             raised |-> handle.raised,
             match |-> body.match]
       ELSE body

\* Process for a server that a request ending in the except clause stops
ProcessStopsOnError(path, method, reqOK, hb, file) ==
    /\ serving
    /\ LET r == ProcessOutcome(path, method, reqOK, hb, file)
       IN /\ last' = [op |-> "process", path |-> path, method |-> method,
                      found |-> r.match.found, handler |-> r.match.handler,
                      params |-> r.match.params, allowed |-> <<>>,
                      calls |-> r.calls, sent |-> r.sent,
                      raised |-> IF r.raised THEN "escaped" ELSE "none"]
          /\ serving' = (\A i \in 1..Len(r.calls) : r.calls[i].f # "except")
    /\ UNCHANGED <<routes, regLog, guards, filters, errors>>
    /\ UNCHANGED <<blueprintVars, cacheVars, cspVars, wsVars>>

\* one request: do_GET / do_POST call process
Process(path, method, reqOK, hb, file) ==
    /\ serving
    /\ LET r == ProcessOutcome(path, method, reqOK, hb, file)
       IN last' = [op |-> "process", path |-> path, method |-> method,
                   found |-> r.match.found, handler |-> r.match.handler,
                   params |-> r.match.params, allowed |-> <<>>,
                   calls |-> r.calls, sent |-> r.sent,
                   raised |-> IF r.raised THEN "escaped" ELSE "none"]
    /\ UNCHANGED <<routes, regLog, guards, filters, errors, serving>>
    /\ UNCHANGED <<blueprintVars, cacheVars, cspVars, wsVars>>

----------------------------------------------------------------------------
(* The file WebPyCore.deliver opens.  A location is the sequence of names  *)
(* from the root of the file system; the server runs in WorkDir, where the *)
(* directory "static" of core.py line 37 lies.                             *)

StaticName == <<"s", "t", "a", "t", "i", "c">>
DotDot == <<".", ".">>
Dot == <<".">>

\* the text between the "/" characters of s, from character i on
RECURSIVE SplitFrom(_, _, _)
SplitFrom(s, i, cur) ==
    IF i > Len(s) THEN <<cur>>
    ELSE IF s[i] = "/" THEN <<cur>> \o SplitFrom(s, i + 1, <<>>)
    ELSE SplitFrom(s, i + 1, Append(cur, s[i]))
Segments(s) == SplitFrom(s, 1, <<>>)

\* pathlib: empty and "." components are dropped, ".." is kept
PathParts(s) == SelectSeq(Segments(s), LAMBDA n : n # <<>> /\ n # Dot)

\* core.py line 179: Path(self.static, filepath[len("/static/"):]); a second
\* argument that starts with "/" is an absolute path and replaces the first
Resource(filepath) ==
    LET rest == SubSeq(filepath, 9, Len(filepath))
        absolute == rest # <<>> /\ rest[1] = "/"
    IN [absolute |-> absolute,
        parts |-> IF absolute THEN PathParts(rest) ELSE <<StaticName>> \o PathParts(rest)]

\* the file system the server runs on
WorkDir == << <<"w">> >>
StaticDir == WorkDir \o <<StaticName>>
Dirs == {<<>>, WorkDir, StaticDir, StaticDir \o << <<"c">> >>, << <<"e">> >>}
Files == {StaticDir \o << <<"a">> >>, WorkDir \o << <<"k">> >>, << <<"e">>, <<"p">> >>}
Nowhere == << <<>> >>

\* open(): the kernel follows the components one by one; ".." is the parent
\* directory, and a component of something that is no directory fails
RECURSIVE Walk(_, _, _)
Walk(at, parts, i) ==
    IF i > Len(parts) THEN at
    ELSE IF at \notin Dirs THEN Nowhere
    ELSE IF parts[i] = DotDot
         THEN Walk(IF at = <<>> THEN at ELSE SubSeq(at, 1, Len(at) - 1), parts, i + 1)
         ELSE Walk(Append(at, parts[i]), parts, i + 1)

\* the location open(resource, "rb") of core.py line 182 reaches
Opened(filepath) ==
    LET r == Resource(filepath)
    IN Walk(IF r.absolute THEN <<>> ELSE WorkDir, r.parts, 1)

\* and what open() does there: a file is read, a directory raises
\* IsADirectoryError, anything else FileNotFoundError
OpenOutcome(filepath) ==
    IF Opened(filepath) \in Files THEN "found"
    ELSE IF Opened(filepath) \in Dirs THEN "oserror"
    ELSE "missing"

----------------------------------------------------------------------------
(* Blueprint.__init__, and Blueprint.route's wrapper as the request        *)
(* threads of ThreadingHTTPServer run it: one step per statement that      *)
(* reads or writes the attribute "render" of class Response.               *)

\* Blueprint(name, prefix), blueprint.py lines 45-54: the new object is stored
\* under its name, whatever the registry holds there
NewBlueprint(name) ==
    /\ ~serving
    /\ made' = Append(made, [name |-> name, raised |-> "none"])
    /\ registry' = [registry EXCEPT ![name] = Len(made) + 1]
    /\ UNCHANGED <<routes, regLog, guards, filters, errors, serving, last>>
    /\ UNCHANGED <<render, workers, cacheVars, cspVars, wsVars>>

\* the application gives class Response a render method, the one the handler
\* of blueprint.py line 77 calls
InstallRender ==
    /\ ~serving
    /\ render = NoRender
    /\ render' = "app"
    /\ UNCHANGED <<routes, regLog, guards, filters, errors, serving, last>>
    /\ UNCHANGED <<workers, registry, made, cacheVars, cspVars, wsVars>>

\* the render closure a dispatch on thread t defines, blueprint.py line 97
RenderOf(t) == IF t = 1 THEN "blueprint1" ELSE "blueprint2"

\* blueprint.py line 94, on a request that a blueprint route takes:
\* original = response.__class__.render, an AttributeError when the class has
\* no such attribute; process then reports 500
WrapperEnter(t, path) ==
    /\ serving
    /\ workers[t].pc = "idle"
    /\ LET matching == RouterMatch(routes, path, "GET")
       IN /\ matching.found
          /\ matching.handler.kind = "blueprint"
    /\ workers' = [workers EXCEPT ![t] =
           IF ResponseHasRender
           THEN [pc |-> "patch", original |-> render, seen |-> <<>>]
           ELSE [pc |-> "done", original |-> NoRender, seen |-> <<>>]]
    /\ UNCHANGED <<routes, regLog, guards, filters, errors, serving, last>>
    /\ UNCHANGED <<render, registry, made, cacheVars, cspVars, wsVars>>

\* blueprint.py line 127: response.__class__.render = render
WrapperPatch(t) ==
    /\ workers[t].pc = "patch"
    /\ render' = RenderOf(t)
    /\ workers' = [workers EXCEPT ![t].pc = "call"]
    /\ UNCHANGED <<routes, regLog, guards, filters, errors, serving, last>>
    /\ UNCHANGED <<registry, made, cacheVars, cspVars, wsVars>>

\* blueprint.py line 131: the handler runs and calls response.render, which
\* is looked up on the class at that moment
WrapperCall(t) ==
    /\ workers[t].pc = "call"
    /\ workers' = [workers EXCEPT ![t].pc = "restore", ![t].seen = <<render>>]
    /\ UNCHANGED <<routes, regLog, guards, filters, errors, serving, last>>
    /\ UNCHANGED <<render, registry, made, cacheVars, cspVars, wsVars>>

\* blueprint.py line 135, the finally clause:
\* response.__class__.render = original; process then sends the response
WrapperRestore(t) ==
    /\ workers[t].pc = "restore"
    /\ render' = workers[t].original
    /\ workers' = [workers EXCEPT ![t].pc = "done"]
    /\ UNCHANGED <<routes, regLog, guards, filters, errors, serving, last>>
    /\ UNCHANGED <<registry, made, cacheVars, cspVars, wsVars>>

\* the thread ends with its request and the next request gets a thread
WrapperLeave(t) ==
    /\ workers[t].pc = "done"
    /\ workers' = [workers EXCEPT ![t] = IdleWorker]
    /\ UNCHANGED <<routes, regLog, guards, filters, errors, serving, last>>
    /\ UNCHANGED <<render, registry, made, cacheVars, cspVars, wsVars>>

----------------------------------------------------------------------------
(* cache.py: MemoryCache.set / get / delete / clear and the wrapper of     *)
(* Cache.cached.  A value is known by what it is to the tests the code     *)
(* makes: None, a falsy value other than None, any other value.            *)

CacheValues == {"None", "0", "v"}

\* cache.py line 81: timeout if timeout is not None else 300
DefaultTimeout == 300
\* the timeout argument left at its default, None
NoTimeout == -1
EffectiveTimeout(timeout) == IF timeout = NoTimeout THEN DefaultTimeout ELSE timeout

\* history: the key holds a set that no delete or clear followed and whose
\* time plus timeout the clock has not reached
Fresh(key) ==
    /\ sets[key].op = "set"
    /\ clock < sets[key].at + sets[key].timeout

\* the dict after MemoryCache.set, cache.py lines 83-86
StoreAfterSet(c, key, value, timeout) ==
    [c EXCEPT ![key] = [present |-> TRUE, value |-> value,
                        expires |-> clock + EffectiveTimeout(timeout)]]
HistoryAfterSet(h, key, value, timeout) ==
    [h EXCEPT ![key] = [op |-> "set", value |-> value, at |-> clock,
                        timeout |-> EffectiveTimeout(timeout)]]

\* GetHit with "<=" in place of "<"
GetHitInclusive(item) == item.present /\ clock <= item.expires

\* cache.py line 101: item and time.time() < item["expires_at"]
GetHit(item) == item.present /\ clock < item.expires

\* MemoryCache.get, cache.py lines 99-106: the value returned and the dict
\* as left
GetResult(c, key) ==
    IF GetHit(c[key])
    THEN [result |-> c[key].value, cache |-> c]
    ELSE [result |-> "None", cache |-> [c EXCEPT ![key] = NoEntry]]

\* MemoryCache.set(key, value, timeout)
CacheSet(key, value, timeout) ==
    /\ cache' = StoreAfterSet(cache, key, value, timeout)
    /\ sets' = HistoryAfterSet(sets, key, value, timeout)
    /\ got' = [NoCall EXCEPT !.op = "set", !.key = key]
    /\ UNCHANGED <<routes, regLog, guards, filters, errors, serving, last>>
    /\ UNCHANGED <<cspVars, wsVars, blueprintVars, clock>>

\* MemoryCache.get(key)
CacheGet(key) ==
    /\ LET r == GetResult(cache, key)
       IN /\ cache' = r.cache
          /\ got' = [op |-> "get", key |-> key, result |-> r.result, ran |-> FALSE,
                     fresh |-> Fresh(key), stored |-> sets[key].value]
    /\ UNCHANGED <<routes, regLog, guards, filters, errors, serving, last>>
    /\ UNCHANGED <<cspVars, wsVars, blueprintVars, clock, sets>>

\* MemoryCache.delete(key): self.cache.pop(key, None)
CacheDelete(key) ==
    /\ cache' = [cache EXCEPT ![key] = NoEntry]
    /\ sets' = [sets EXCEPT ![key] = [NeverSet EXCEPT !.op = "delete"]]
    /\ got' = [NoCall EXCEPT !.op = "delete", !.key = key]
    /\ UNCHANGED <<routes, regLog, guards, filters, errors, serving, last>>
    /\ UNCHANGED <<cspVars, wsVars, blueprintVars, clock>>

\* MemoryCache.clear(): self.cache.clear()
CacheClear ==
    /\ cache' = [k \in CacheKeys |-> NoEntry]
    /\ sets' = [k \in CacheKeys |-> [NeverSet EXCEPT !.op = "clear"]]
    /\ got' = [NoCall EXCEPT !.op = "clear"]
    /\ UNCHANGED <<routes, regLog, guards, filters, errors, serving, last>>
    /\ UNCHANGED <<cspVars, wsVars, blueprintVars, clock>>

\* the wrapper of Cache.cached(timeout), cache.py lines 285-292, called with
\* the arguments that make the key, for a function that returns ret when run
CachedCall(key, ret, timeout) ==
    /\ LET r == GetResult(cache, key)
           run == r.result = "None"
       IN /\ cache' = IF run THEN StoreAfterSet(r.cache, key, ret, timeout) ELSE r.cache
          /\ sets' = IF run THEN HistoryAfterSet(sets, key, ret, timeout) ELSE sets
          /\ got' = [op |-> "cached", key |-> key,
                     result |-> IF run THEN ret ELSE r.result, ran |-> run,
                     fresh |-> Fresh(key), stored |-> sets[key].value]
    /\ UNCHANGED <<routes, regLog, guards, filters, errors, serving, last>>
    /\ UNCHANGED <<cspVars, wsVars, blueprintVars, clock>>

\* time passes: a second, or a default timeout's worth of seconds at once
Tick(d) ==
    /\ clock' = clock + d
    /\ UNCHANGED <<routes, regLog, guards, filters, errors, serving, last>>
    /\ UNCHANGED <<cspVars, wsVars, blueprintVars, cache, sets, got>>

----------------------------------------------------------------------------
(* csp.py: the post-hook CSP.__init__ registers with app.after, as the     *)
(* request threads of ThreadingHTTPServer run it: one step per statement   *)
(* that reads or writes self.rules.                                        *)

IsNonce(x) == x > 0

\* lines 59-60: nonce = secrets.token_urlsafe(16); self.nonce = nonce
HookEnter(t) ==
    /\ serving
    /\ cspHooks[t].pc = "idle"
    /\ tokens' = tokens + 1
    /\ csp' = [csp EXCEPT !.nonce = tokens + 1]
    /\ cspHooks' = [cspHooks EXCEPT ![t] = [IdleHook EXCEPT !.pc = "filter",
                                                            !.nonce = tokens + 1,
                                                            !.key = 1]]
    /\ UNCHANGED <<routes, regLog, guards, filters, errors, serving, last>>
    /\ UNCHANGED <<blueprintVars, cacheVars, wsVars>>

\* line 66: self.rules[key] = [x for x in self.rules[key] if not x.startswith("'nonce-")]
HookFilter(t) ==
    /\ cspHooks[t].pc = "filter"
    /\ LET key == CspKeys[cspHooks[t].key]
       IN csp' = [csp EXCEPT !.rules[key] = SelectSeq(@, LAMBDA x : ~IsNonce(x))]
    /\ cspHooks' = [cspHooks EXCEPT ![t].pc = "append"]
    /\ UNCHANGED <<routes, regLog, guards, filters, errors, serving, last>>
    /\ UNCHANGED <<blueprintVars, cacheVars, wsVars, tokens>>

\* line 68: self.rules[key].append(f"'nonce-{nonce}'"), and the loop of line 63
HookAppend(t) ==
    /\ cspHooks[t].pc = "append"
    /\ LET key == CspKeys[cspHooks[t].key]
       IN csp' = [csp EXCEPT !.rules[key] = Append(@, cspHooks[t].nonce)]
    /\ cspHooks' = IF cspHooks[t].key < Len(CspKeys)
                   THEN [cspHooks EXCEPT ![t].pc = "filter", ![t].key = @ + 1]
                   ELSE [cspHooks EXCEPT ![t].pc = "build"]
    /\ UNCHANGED <<routes, regLog, guards, filters, errors, serving, last>>
    /\ UNCHANGED <<blueprintVars, cacheVars, wsVars, tokens>>

\* lines 71-76: the policy is built from self.rules, each list through set(),
\* and put in the header; the hook's own nonce is exposed as csp_nonce
HookBuild(t) ==
    /\ cspHooks[t].pc = "build"
    /\ cspHooks' = [cspHooks EXCEPT
           ![t].pc = "done",
           ![t].policy = [k \in DOMAIN csp.rules |->
                             {csp.rules[k][i] : i \in 1..Len(csp.rules[k])}],
           ![t].exposed = cspHooks[t].nonce]
    /\ UNCHANGED <<routes, regLog, guards, filters, errors, serving, last>>
    /\ UNCHANGED <<blueprintVars, cacheVars, wsVars, csp, tokens>>

\* the response is sent and the thread takes the next request
HookLeave(t) ==
    /\ cspHooks[t].pc = "done"
    /\ cspHooks' = [cspHooks EXCEPT ![t] = IdleHook]
    /\ UNCHANGED <<routes, regLog, guards, filters, errors, serving, last>>
    /\ UNCHANGED <<blueprintVars, cacheVars, wsVars, csp, tokens>>

----------------------------------------------------------------------------
(* websocket.py.  registry["clients"] is a dict: its entries in insertion  *)
(* order, a deleted entry leaving an empty slot (0) behind, as in CPython. *)
(* WebSocket.handle runs on one thread per client, WebSocket.emit on the   *)
(* thread that calls it; each takes one step per statement that reads or   *)
(* writes the dict or uses a socket.                                       *)

Live(cl) == {cl[i] : i \in 1..Len(cl)} \ {0}
DictDelete(cl, c) == [i \in 1..Len(cl) |-> IF cl[i] = c THEN 0 ELSE cl[i]]

\* line 147: self.registry["clients"][identity] = client
HandleRegister(c) ==
    /\ handling[c].pc = "new"
    /\ clients' = Append(clients, c)
    /\ handling' = [handling EXCEPT ![c].pc = "recv"]
    /\ UNCHANGED <<routes, regLog, guards, filters, errors, serving, last>>
    /\ UNCHANGED <<blueprintVars, cacheVars, cspVars, sockets, emitter>>

\* the peer goes away: it closes the connection, or the connection breaks
PeerCloses(c) ==
    /\ handling[c].pc # "new"
    /\ sockets[c].peer = "up"
    /\ sockets' = [sockets EXCEPT ![c].peer = "down"]
    /\ UNCHANGED <<routes, regLog, guards, filters, errors, serving, last>>
    /\ UNCHANGED <<blueprintVars, cacheVars, cspVars, clients, handling, emitter>>

\* what one pass of the receive loop, lines 152-172, can meet: a message
\* whose handler returns, a message whose handler raises, and from a peer
\* that went away no data or ConnectionResetError
RecvOutcomes(c) ==
    IF sockets[c].peer = "up" THEN {"message", "handler raised"}
    ELSE {"no data", "ConnectionResetError"}

\* lines 152-179: the loop goes on after a handled message and ends, by break
\* or in an except clause, on everything else
HandleRecv(c, outcome) ==
    /\ handling[c].pc = "recv"
    /\ outcome \in RecvOutcomes(c)
    /\ handling' = [handling EXCEPT ![c] = [pc |-> IF outcome = "message" THEN "recv" ELSE "check",
                                            why |-> outcome]]
    /\ UNCHANGED <<routes, regLog, guards, filters, errors, serving, last>>
    /\ UNCHANGED <<blueprintVars, cacheVars, cspVars, clients, sockets, emitter>>

\* line 183: if identity in self.registry["clients"]
HandleCheck(c) ==
    /\ handling[c].pc = "check"
    /\ handling' = [handling EXCEPT ![c].pc = IF c \in Live(clients) THEN "del" ELSE "close"]
    /\ UNCHANGED <<routes, regLog, guards, filters, errors, serving, last>>
    /\ UNCHANGED <<blueprintVars, cacheVars, cspVars, clients, sockets, emitter>>

\* line 184: del self.registry["clients"][identity]; KeyError when the key is
\* no longer there, and the exception leaves the finally clause and the thread
HandleDel(c) ==
    /\ handling[c].pc = "del"
    /\ IF c \in Live(clients)
       THEN /\ clients' = DictDelete(clients, c)
            /\ handling' = [handling EXCEPT ![c].pc = "close"]
       ELSE /\ handling' = [handling EXCEPT ![c] = [pc |-> "escaped", why |-> "KeyError"]]
            /\ UNCHANGED clients
    /\ UNCHANGED <<routes, regLog, guards, filters, errors, serving, last>>
    /\ UNCHANGED <<blueprintVars, cacheVars, cspVars, sockets, emitter>>

\* line 185: client.close()
HandleClose(c) ==
    /\ handling[c].pc = "close"
    /\ sockets' = [sockets EXCEPT ![c].closed = TRUE]
    /\ handling' = [handling EXCEPT ![c].pc = "ended"]
    /\ UNCHANGED <<routes, regLog, guards, filters, errors, serving, last>>
    /\ UNCHANGED <<blueprintVars, cacheVars, cspVars, clients, emitter>>

\* lines 107-116: the message is built and the for statement creates the
\* iterator of the dict's items, which remembers the size of the dict
EmitStart ==
    /\ emitter.pc = "idle"
    /\ emitter' = [IdleEmitter EXCEPT !.pc = "next",
                                      !.used = Cardinality(Live(clients)),
                                      !.left = Cardinality(Live(clients)),
                                      !.pos = 1,
                                      !.atCall = Live(clients)]
    /\ UNCHANGED <<routes, regLog, guards, filters, errors, serving, last>>
    /\ UNCHANGED <<blueprintVars, cacheVars, cspVars, clients, sockets, handling>>

\* the slots from the iterator's position on that hold an entry
SlotsFrom(pos) == {i \in pos..Len(clients) : clients[i] # 0}

\* line 116, the iterator's next item: RuntimeError when the size of the dict
\* is not the size remembered, or when an entry turns up after as many were
\* handed out as the dict had; the end of the loop when no entry is left
EmitNext ==
    /\ emitter.pc = "next"
    /\ emitter' =
           IF Cardinality(Live(clients)) # emitter.used
           THEN [emitter EXCEPT !.pc = "raised", !.raised = "RuntimeError"]
           ELSE IF SlotsFrom(emitter.pos) = {}
                THEN [emitter EXCEPT !.pc = "cleanup", !.index = 1]
                ELSE IF emitter.left = 0
                     THEN [emitter EXCEPT !.pc = "raised", !.raised = "RuntimeError"]
                     ELSE LET i == CHOOSE k \in SlotsFrom(emitter.pos) :
                                       \A j \in SlotsFrom(emitter.pos) : k <= j
                          IN [emitter EXCEPT !.pc = "send", !.cur = clients[i],
                                             !.pos = i + 1, !.left = @ - 1]
    /\ UNCHANGED <<routes, regLog, guards, filters, errors, serving, last>>
    /\ UNCHANGED <<blueprintVars, cacheVars, cspVars, clients, sockets, handling>>

\* what client.sendall can do: on a socket the server closed, OSError (bad
\* file descriptor); to a peer that went away, the data may still be taken,
\* or the call fails with one of the connection errors of the system
SendOutcomes(c) ==
    IF sockets[c].closed THEN {"OSError"}
    ELSE IF sockets[c].peer = "up" THEN {"sent"}
    ELSE {"sent", "BrokenPipeError", "ConnectionResetError", "TimeoutError"}

\* line 119: except (BrokenPipeError, ConnectionResetError)
Caught == {"BrokenPipeError", "ConnectionResetError"}

\* lines 117-121: the send to the current client
EmitSend(outcome) ==
    /\ emitter.pc = "send"
    /\ outcome \in SendOutcomes(emitter.cur)
    /\ LET tried == Append(emitter.tried, <<emitter.cur, outcome>>)
       IN emitter' =
              IF outcome = "sent"
              THEN [emitter EXCEPT !.pc = "next", !.tried = tried]
              ELSE IF outcome \in Caught
                   THEN [emitter EXCEPT !.pc = "next", !.tried = tried,
                                        !.disconnected = Append(@, emitter.cur)]
                   ELSE [emitter EXCEPT !.pc = "raised", !.tried = tried,
                                        !.raised = outcome]
    /\ UNCHANGED <<routes, regLog, guards, filters, errors, serving, last>>
    /\ UNCHANGED <<blueprintVars, cacheVars, cspVars, clients, sockets, handling>>

\* lines 124-125: for identity in disconnected: if identity in the dict
EmitCheck ==
    /\ emitter.pc = "cleanup"
    /\ emitter.index <= Len(emitter.disconnected)
    /\ emitter' = IF emitter.disconnected[emitter.index] \in Live(clients)
                  THEN [emitter EXCEPT !.pc = "del"]
                  ELSE [emitter EXCEPT !.index = @ + 1]
    /\ UNCHANGED <<routes, regLog, guards, filters, errors, serving, last>>
    /\ UNCHANGED <<blueprintVars, cacheVars, cspVars, clients, sockets, handling>>

\* line 126: del self.registry["clients"][identity]
EmitDel ==
    /\ emitter.pc = "del"
    /\ IF emitter.disconnected[emitter.index] \in Live(clients)
       THEN /\ clients' = DictDelete(clients, emitter.disconnected[emitter.index])
            /\ emitter' = [emitter EXCEPT !.pc = "cleanup", !.index = @ + 1]
       ELSE /\ emitter' = [emitter EXCEPT !.pc = "raised", !.raised = "KeyError"]
            /\ UNCHANGED clients
    /\ UNCHANGED <<routes, regLog, guards, filters, errors, serving, last>>
    /\ UNCHANGED <<blueprintVars, cacheVars, cspVars, sockets, handling>>

\* the loop of line 124 is over: emit returns
EmitDone ==
    /\ emitter.pc = "cleanup"
    /\ emitter.index > Len(emitter.disconnected)
    /\ emitter' = [emitter EXCEPT !.pc = "done"]
    /\ UNCHANGED <<routes, regLog, guards, filters, errors, serving, last>>
    /\ UNCHANGED <<blueprintVars, cacheVars, cspVars, clients, sockets, handling>>

\* the caller goes on, to the next emit
EmitReturn ==
    /\ emitter.pc \in {"done", "raised"}
    /\ emitter' = IdleEmitter
    /\ UNCHANGED <<routes, regLog, guards, filters, errors, serving, last>>
    /\ UNCHANGED <<blueprintVars, cacheVars, cspVars, clients, sockets, handling>>

----------------------------------------------------------------------------
(* The inputs of the router specification.                                 *)

TUsers == <<"/", "u", "s", "e", "r", "s", "/", "<", "i", "d", ":", "i", "n", "t", ">">>
PUsers42 == <<"/", "u", "s", "e", "r", "s", "/", "4", "2">>
PUsersAbc == <<"/", "u", "s", "e", "r", "s", "/", "a", "b", "c">>

TItemInt == <<"/", "i", "t", "e", "m", "/", "<", "i", "d", ":", "i", "n", "t", ">">>
TItemStr == <<"/", "i", "t", "e", "m", "/", "<", "n", "a", "m", "e", ":", "s", "t", "r", ">">>
TItemBare == <<"/", "i", "t", "e", "m", "/", "<", "n", "a", "m", "e", ">">>
TFiles == <<"/", "f", "i", "l", "e", "s", "/", "<", "r", "e", "s", "t", ":", "p", "a", "t", "h", ">">>
TTwice == <<"/", "<", "a", ":", "i", "n", "t", ">", "/", "<", "a", ":", "i", "n", "t", ">">>

RouterTemplates == {TItemInt, TItemStr, TItemBare, TFiles, TTwice}

PItem42 == <<"/", "i", "t", "e", "m", "/", "4", "2">>
PItemAbc == <<"/", "i", "t", "e", "m", "/", "a", "b", "c">>
PItemDeep == <<"/", "i", "t", "e", "m", "/", "4", "2", "/", "x">>
PItemNone == <<"/", "i", "t", "e", "m", "/">>
PItemNl == <<"/", "i", "t", "e", "m", "/", "4", "2", NL>>
PFilesDeep == <<"/", "f", "i", "l", "e", "s", "/", "a", "/", "b">>
PFilesOne == <<"/", "f", "i", "l", "e", "s", "/", "a">>

RouterPaths == {PItem42, PItemAbc, PItemDeep, PItemNone, PItemNl, PFilesDeep, PFilesOne}

Methods == {"GET", "POST"}
MethodLists == {<<"GET">>, <<"GET", "POST">>}

NextRouter ==
    \/ /\ Len(regLog) < MaxRegs
       /\ \E t \in RouterTemplates, ms \in MethodLists : CoreRoute(t, ms)
    \/ Run
    \/ \E p \in RouterPaths, m \in Methods : Match(p, m)
    \/ \E p \in RouterPaths : MethodsQuery(p)

SpecRouter == Init /\ [][NextRouter]_vars

----------------------------------------------------------------------------
(* Vocabulary of the claims about the route table.                         *)

\* a registration accepts (path, method): its compiled pattern matches the
\* path and its method list holds the method
RegAccepts(reg, path, method) ==
    PatternMatch(Compile(reg.path), path).ok /\ InList(method, reg.methods)

\* the registrations that accept the latest request
RegHits == {k \in 1..Len(regLog) : RegAccepts(regLog[k], last.path, last.method)}

\* the latest registration of each template, and the position of a
\* template's first registration
LiveRegs == {k \in 1..Len(regLog) : \A j \in (k + 1)..Len(regLog) : regLog[j].path # regLog[k].path}
FirstReg(k) == CHOOSE j \in 1..k : /\ regLog[j].path = regLog[k].path
                                   /\ \A i \in 1..(j - 1) : regLog[i].path # regLog[k].path
LiveHits == LiveRegs \cap RegHits

\* the latest Router.match call returned registration k's handler with the
\* groups its pattern captures from the path
ReturnedReg(k) ==
    /\ last.found
    /\ last.handler = regLog[k].handler
    /\ last.params = GroupDict(PatternMatch(Compile(regLog[k].path), last.path).caps)

\* C1 (as stated): Router.match returns the handler and parameters of the
\* first entry, in the order in which the entries were registered, whose
\* compiled pattern matches the path and whose method list contains the
\* method, and None exactly when no entry does.
C1_FirstRegistrationWins ==
    last.op = "match" =>
        IF LiveHits = {} THEN ~last.found
        ELSE ReturnedReg(CHOOSE k \in LiveHits : \A j \in LiveHits : k <= j)

\* C1 (amended): the table holds one entry per template, the latest
\* registration of that template, at the place of the template's first
\* registration; Router.match returns the handler and parameters of the first
\* entry in that order that matches the path and allows the method, and None
\* exactly when no entry does.
C1_FirstTableEntryWins ==
    last.op = "match" =>
        IF LiveHits = {} THEN ~last.found
        ELSE ReturnedReg(CHOOSE k \in LiveHits : \A j \in LiveHits : FirstReg(k) <= FirstReg(j))

\* C1 witness: a match that returned the second table entry after skipping
\* the first, in a table one of whose templates was registered twice
C1_Witness ==
    /\ last.op = "match"
    /\ last.found
    /\ Len(routes) >= 2
    /\ Len(regLog) > Len(routes)
    /\ last.handler = routes[2].handler

\* the typed placeholders <name:type> of a template, as <<name, type>>
TypedPlaceholders(t) ==
    {<<PlaceholderName(t, i),
       SubSeq(t, i + 2 + WordRun(t, i + 1), PlaceholderEnd(t, i) - 2)>> :
        i \in {j \in 1..Len(t) : PlaceholderAt(t, j)}}

\* an untyped placeholder <name> at position i of a template
BarePlaceholderAt(t, i) ==
    /\ i <= Len(t)
    /\ t[i] = "<"
    /\ WordRun(t, i + 1) >= 1
    /\ i + 1 + WordRun(t, i + 1) <= Len(t)
    /\ t[i + 1 + WordRun(t, i + 1)] = ">"

\* the placeholder names of a template, written <name:type> or <name>
PlaceholderNames(t) ==
    {PlaceholderName(t, i) : i \in {j \in 1..Len(t) : PlaceholderAt(t, j) \/ BarePlaceholderAt(t, j)}}

\* the matcher a template stands for when both placeholder forms capture a
\* run of non-separator characters
RECURSIVE TemplateItems(_, _)
TemplateItems(t, i) ==
    IF i > Len(t) THEN <<>>
    ELSE IF PlaceholderAt(t, i)
         THEN <<GroupItem(PlaceholderName(t, i))>> \o TemplateItems(t, PlaceholderEnd(t, i))
         ELSE IF BarePlaceholderAt(t, i)
              THEN <<GroupItem(PlaceholderName(t, i))>>
                       \o TemplateItems(t, i + 2 + WordRun(t, i + 1))
              ELSE <<LitItem(t[i])>> \o TemplateItems(t, i + 1)

\* the path agrees with the template on its literal text
FitsTemplate(t, path) == PatternMatch(TemplateItems(t, 1), path).ok

AllDigits(s) == Len(s) >= 1 /\ \A i \in 1..Len(s) : s[i] \in Digits
IntText == <<"i", "n", "t">>

\* the table entry the latest match returned
ReturnedEntry == CHOOSE i \in 1..Len(routes) : routes[i].handler = last.handler

\* C3: an entry with an int-typed placeholder does not match a path whose
\* segment for that placeholder is non-numeric: no match result carries text
\* other than digits for an int-typed placeholder of the entry it came from.
C3_IntRejectsNonNumeric ==
    (last.op = "match" /\ last.found) =>
        \A ph \in TypedPlaceholders(routes[ReturnedEntry].path) :
            ph[2] = IntText =>
                \A pv \in last.params :
                    pv[1] = ph[1] => (pv[2].type = "int" \/ AllDigits(pv[2].text))

\* C5: a request with an allowed method to a path that fits a registered
\* template's literal text, and that no earlier entry takes, returns that
\* template's handler and a parameter set whose keys are exactly the
\* template's placeholder names.
C5_KeysArePlaceholderNames ==
    last.op = "match" =>
        \A i \in 1..Len(routes) :
            (/\ InList(last.method, routes[i].methods)
             /\ FitsTemplate(routes[i].path, last.path)
             /\ \A j \in 1..(i - 1) :
                    ~(/\ InList(last.method, routes[j].methods)
                      /\ FitsTemplate(routes[j].path, last.path)))
            => /\ last.found
               /\ last.handler = routes[i].handler
               /\ {pv[1] : pv \in last.params} = PlaceholderNames(routes[i].path)

\* the entries whose pattern matches the path, whatever the method
StructuralHits(path) == {i \in 1..Len(routes) : PatternMatch(routes[i].pattern, path).ok}

\* the members of a list of method names
ListSet(ms) == {ms[i] : i \in 1..Len(ms)}

\* C11: for a path that some entry structurally matches, Router.methods
\* returns a non-empty collection equal to the union of the method lists of
\* all entries that structurally match the path.
C11_AllowedIsUnion ==
    (last.op = "methods" /\ StructuralHits(last.path) # {}) =>
        /\ last.allowed # <<>>
        /\ ListSet(last.allowed)
               = UNION {ListSet(routes[i].methods) : i \in StructuralHits(last.path)}

\* C12 (as stated): Router.methods returns an empty collection if and only
\* if no registered entry structurally matches the path.
C12_EmptyIffNoStructuralMatch ==
    last.op = "methods" =>
        (last.allowed = <<>> <=> StructuralHits(last.path) = {})

\* C12 (amended): when no registered entry structurally matches the path,
\* Router.methods returns the default list ["GET"], not an empty collection.
C12_DefaultIsGet ==
    (last.op = "methods" /\ StructuralHits(last.path) = {}) =>
        last.allowed = <<"GET">>

\* C12 witness: a query, against a table that has entries, for a path none of
\* them matches
C12_Witness ==
    /\ last.op = "methods"
    /\ routes # <<>>
    /\ StructuralHits(last.path) = {}
    /\ last.allowed = <<"GET">>

TablePlace(k) ==
    Cardinality({FirstReg(j) : j \in {i \in 1..Len(regLog) : FirstReg(i) <= FirstReg(k)}})

\* C17 (as stated): registering a template appends an entry and replaces
\* none: the table holds one entry for every registration, in registration
\* order, so a request is resolved by the first registration that accepts it.
C17_ReRegistrationAppends ==
    /\ Len(routes) = Len(regLog)
    /\ \A k \in 1..Len(regLog) :
           k <= Len(routes) => routes[k] = RouteEntry(regLog[k].path, regLog[k].methods,
                                                      regLog[k].handler)
    /\ last.op = "match" =>
           IF RegHits = {} THEN ~last.found
           ELSE ReturnedReg(CHOOSE k \in RegHits : \A j \in RegHits : k <= j)

\* C17 (amended): registering a template that is already in the table
\* replaces its entry in place: the table holds one entry per distinct
\* template, in the order of the templates' first registrations, and each
\* entry carries the methods and the handler of the template's latest
\* registration; a request that only a replaced registration would accept is
\* not resolved by it.
C17_ReRegistrationReplaces ==
    /\ Len(routes) = Cardinality(LiveRegs)
    /\ \A k \in LiveRegs :
           routes[TablePlace(k)] = RouteEntry(regLog[k].path, regLog[k].methods,
                                              regLog[k].handler)
    /\ (last.op = "match" /\ last.found) =>
           \E k \in LiveRegs : last.handler = regLog[k].handler

\* C17 witness: a template was registered twice, and a request that its
\* first registration accepts and no table entry accepts returned None
C17_Witness ==
    /\ last.op = "match"
    /\ ~last.found
    /\ Len(regLog) > Len(routes)
    /\ RegHits # {}
    /\ LiveHits = {}

\* the first registration of the template of table entry i
FirstOfEntry(i) ==
    CHOOSE k \in 1..Len(regLog) : /\ regLog[k].path = routes[i].path
                                  /\ \A j \in 1..(k - 1) : regLog[j].path # routes[i].path
\* the latest registration of the template of table entry i
LatestOfEntry(i) ==
    CHOOSE k \in 1..Len(regLog) : /\ regLog[k].path = routes[i].path
                                  /\ \A j \in (k + 1)..Len(regLog) : regLog[j].path # routes[i].path

\* C36: after any sequence of registrations the table holds exactly one
\* entry per distinct template registered; each entry has the handler, the
\* methods and the pattern of the template's latest registration and stands
\* where the template's first registration put it, so that a match returns
\* the entry of the earliest-registered template among those that accept.
C36_OneEntryPerTemplateInFirstOrder ==
    /\ \A i, j \in 1..Len(routes) : routes[i].path = routes[j].path => i = j
    /\ {routes[i].path : i \in 1..Len(routes)} = {regLog[k].path : k \in 1..Len(regLog)}
    /\ \A i \in 1..Len(routes) :
           /\ routes[i].handler = regLog[LatestOfEntry(i)].handler
           /\ routes[i].methods = regLog[LatestOfEntry(i)].methods
           /\ routes[i].pattern = Compile(regLog[LatestOfEntry(i)].path)
    /\ \A i, j \in 1..Len(routes) : i < j => FirstOfEntry(i) < FirstOfEntry(j)
    /\ (last.op = "match" /\ last.found) =>
           \E i \in 1..Len(routes) :
               /\ last.handler = routes[i].handler
               /\ \A j \in 1..Len(routes) :
                      EntryAccepts(routes[j], last.path, last.method)
                          => FirstOfEntry(i) <= FirstOfEntry(j)

\* C36 witness: a template was registered, then another, then the first
\* again; a request both accept returned the handler of the latest
\* registration, which stands first in the table
C36_Witness ==
    /\ last.op = "match"
    /\ last.found
    /\ Len(routes) = 2
    /\ Len(regLog) = 3
    /\ regLog[1].path = regLog[3].path
    /\ last.handler = regLog[3].handler
    /\ routes[1].handler = regLog[3].handler
    /\ EntryAccepts(routes[2], last.path, last.method)

----------------------------------------------------------------------------
(* The pattern specification: templates with and without placeholders,     *)
(* with a path-typed placeholder and with an unclosed "<", and paths that  *)
(* are complete, cut short or carry extra text.                            *)

TAbout == <<"/", "a", "b", "o", "u", "t">>
TOpen == <<"/", "i", "t", "e", "m", "/", "<", "i", "d">>

\* the placeholder order of the docstrings of core.py and blueprint.py
TUsersTypeFirst == <<"/", "u", "s", "e", "r", "s", "/", "<", "i", "n", "t", ":", "i", "d", ">">>
TAssets == <<"/", "s", "t", "a", "t", "i", "c", "/", "a", "p", "i", "/", "<", "p", "a", "t", "h", ":", "f", "i", "l", "e", "p", "a", "t", "h", ">">>

PatternTemplates == {TAbout, TOpen, TFiles, TItemInt, TTwice, TUsersTypeFirst, TAssets}

PAbout == <<"/", "a", "b", "o", "u", "t">>
PAbou == <<"/", "a", "b", "o", "u">>
PAboutDeep == <<"/", "a", "b", "o", "u", "t", "/", "x">>
PAboutNl == <<"/", "a", "b", "o", "u", "t", NL>>
POpen == <<"/", "i", "t", "e", "m", "/", "<", "i", "d">>
PAssetsOne == <<"/", "s", "t", "a", "t", "i", "c", "/", "a", "p", "i", "/", "a">>

PatternPaths == {PAbout, PAbou, PAboutDeep, PAboutNl, POpen,
                 PItem42, PItemNone, PItemDeep, PFilesOne, PFilesDeep,
                 PUsers42, PAssetsOne}

NextPatterns ==
    \/ /\ Len(regLog) < MaxRegs
       /\ \E t \in PatternTemplates : CoreRoute(t, <<"GET">>)
    \/ Run
    \/ \E p \in PatternPaths : Match(p, "GET")

SpecPatterns == Init /\ [][NextPatterns]_vars

----------------------------------------------------------------------------
(* Vocabulary of the claims about templates.                               *)

PathText == <<"p", "a", "t", "h">>

\* the template has no placeholder of type path
NoPathPlaceholder(t) == \A ph \in TypedPlaceholders(t) : ph[2] # PathText

\* the whole of the path, and nothing less or more, is the template's text
\* with a non-empty run of non-separator characters for each placeholder
CompleteFit(t, path) ==
    PatternMatch(Append(TemplateItems(t, 1), LitItem("$")), Append(path, "$")).ok

\* C18: a template without a path-typed placeholder matches only complete
\* paths, not a proper prefix of one nor one followed by extra characters or
\* segments, and every placeholder value is a non-empty text without "/".
C18_MatchesOnlyCompletePaths ==
    (last.op = "match" /\ last.found /\ NoPathPlaceholder(routes[ReturnedEntry].path)) =>
        /\ CompleteFit(routes[ReturnedEntry].path, last.path)
        /\ \A pv \in last.params :
               /\ pv[2].text # <<>>
               /\ \A i \in 1..Len(pv[2].text) : pv[2].text[i] # "/"

\* the position of a path-typed placeholder that ends the template, 0 when
\* the template does not end in one
TrailingPathAt(t) ==
    LET at == {i \in 1..Len(t) : /\ PlaceholderAt(t, i)
                                 /\ PlaceholderEnd(t, i) = Len(t) + 1
                                 /\ SubSeq(t, i + 2 + WordRun(t, i + 1), Len(t) - 1) = PathText}
    IN IF at = {} THEN 0 ELSE CHOOSE i \in at : TRUE

\* C19: a request for a path that continues the literal text before a
\* trailing path-typed placeholder, over one or several further segments, is
\* matched by that entry (when no earlier entry takes it) and the parameter
\* holds the whole remainder, separators included.
C19_PathPlaceholderCrossesSeparators ==
    last.op = "match" =>
        \A i \in 1..Len(routes) :
            LET t == routes[i].path
                at == TrailingPathAt(t)
            IN (/\ at > 0
                /\ \A k \in 1..(at - 1) : ~PlaceholderAt(t, k)
                /\ InList(last.method, routes[i].methods)
                /\ StartsWith(last.path, SubSeq(t, 1, at - 1))
                /\ Len(last.path) >= at
                /\ \A j \in 1..(i - 1) : ~EntryAccepts(routes[j], last.path, last.method))
               => /\ last.found
                  /\ last.handler = routes[i].handler
                  /\ last.params = {<<PlaceholderName(t, at),
                                      StrValue(SubSeq(last.path, at, Len(last.path)))>>}

\* the words that name a placeholder type
TypeWords == {IntText, <<"s", "t", "r">>, PathText}

\* C27: a placeholder written <type:name>, the type word first, delivers its
\* value under the placeholder's name: the parameters of a match of such a
\* template have a key equal to the word after the colon.
C27_TypeFirstPlaceholderNamesParameter ==
    (last.op = "match" /\ last.found) =>
        \A ph \in TypedPlaceholders(routes[ReturnedEntry].path) :
            (ph[1] \in TypeWords /\ ph[2] \notin TypeWords) =>
                \E pv \in last.params : pv[1] = ph[2]

\* the template's "<" and ">" do not pair up: a ">" with no "<" open, a "<"
\* inside an open "<", or a "<" left open at the end
RECURSIVE UnbalancedFrom(_, _, _)
UnbalancedFrom(t, i, open) ==
    IF i > Len(t) THEN open
    ELSE IF t[i] = "<" THEN open \/ UnbalancedFrom(t, i + 1, TRUE)
    ELSE IF t[i] = ">" THEN ~open \/ UnbalancedFrom(t, i + 1, FALSE)
    ELSE UnbalancedFrom(t, i + 1, open)
Unbalanced(t) == UnbalancedFrom(t, 1, FALSE)

\* C20: registering a template with unbalanced "<" or ">" fails at
\* registration time with an error and adds no entry: no entry of the table
\* has such a template.
C20_UnbalancedFailsAtRegistration ==
    /\ (last.op = "route" /\ Unbalanced(last.path)) => last.raised # "none"
    /\ \A i \in 1..Len(routes) : ~Unbalanced(routes[i].path)

----------------------------------------------------------------------------
(* The blueprint specification: blueprints are created, one of them        *)
(* registers a route, and two request threads run its wrapper.             *)

PrefixApi == <<"/", "a", "p", "i">>
PrefixAdmin == <<"/", "a", "d", "m", "i", "n">>
PrefixOf(name) == IF name = "api" THEN PrefixApi ELSE PrefixAdmin

PApiUsers42 == <<"/", "a", "p", "i", "/", "u", "s", "e", "r", "s", "/", "4", "2">>
PAdminUsers42 == <<"/", "a", "d", "m", "i", "n", "/", "u", "s", "e", "r", "s", "/", "4", "2">>
BlueprintPaths == {PApiUsers42, PAdminUsers42}

NextBlueprint ==
    \/ /\ Len(made) < MaxBlueprints
       /\ \E name \in BlueprintNames : NewBlueprint(name)
    \/ InstallRender
    \/ /\ routes = <<>>
       /\ \E k \in 1..Len(made) : BlueprintRoute(PrefixOf(made[k].name), TUsers, <<"GET">>)
    \/ Run
    \/ \E t \in Threads, p \in BlueprintPaths : WrapperEnter(t, p)
    \/ \E t \in Threads : WrapperPatch(t)
    \/ \E t \in Threads : WrapperCall(t)
    \/ \E t \in Threads : WrapperRestore(t)
    \/ \E t \in Threads : WrapperLeave(t)

SpecBlueprint == Init /\ [][NextBlueprint]_vars

\* the render functions that dispatches install
InstalledRenders == {RenderOf(t) : t \in Threads}

FirstMade(name) ==
    LET ks == {k \in 1..Len(made) : made[k].name = name}
    IN IF ks = {} THEN NoBlueprint ELSE CHOOSE k \in ks : \A j \in ks : k <= j

\* C28: creating a Blueprint whose name is already in the registry raises
\* KeyError, and the registry maps every name to the first blueprint made
\* with it.
C28_DuplicateNameRaisesKeyError ==
    /\ \A k \in 1..Len(made) :
           (\E j \in 1..(k - 1) : made[j].name = made[k].name) =>
               made[k].raised = "KeyError"
    /\ \A name \in BlueprintNames : registry[name] = FirstMade(name)

----------------------------------------------------------------------------
(* The cache specification: every operation of MemoryCache on two keys,    *)
(* calls of a cached function, and a clock that passes the timeouts.       *)

Timeouts == {NoTimeout, 0, 1}

NextCache ==
    \/ \E k \in CacheKeys, v \in CacheValues, to \in Timeouts : CacheSet(k, v, to)
    \/ \E k \in CacheKeys : CacheGet(k)
    \/ \E k \in CacheKeys : CacheDelete(k)
    \/ CacheClear
    \/ \E k \in CacheKeys, v \in CacheValues, to \in Timeouts : CachedCall(k, v, to)
    \/ /\ clock % DefaultTimeout < MaxClock
       /\ Tick(1)
    \/ /\ clock < DefaultTimeout
       /\ Tick(DefaultTimeout)

SpecCache == Init /\ [][NextCache]_vars

\* C29: while the cache entry of an argument list has not expired, a call of
\* the cached function with those arguments does not run the function and
\* returns the stored result, whatever value that is.
C29_CachedRunsOncePerWindow ==
    (got.op = "cached" /\ got.fresh) =>
        /\ ~got.ran
        /\ got.result = got.stored

\* C30: get(key) returns the value of the latest set(key, v, timeout) when no
\* delete(key) or clear() followed it and the time is before the set time plus
\* the timeout (300 for None); otherwise it returns None and the key is not
\* in the store after the call.
C30_GetReturnsLatestUnexpiredSet ==
    got.op = "get" =>
        IF got.fresh
        THEN got.result = got.stored
        ELSE got.result = "None" /\ ~cache[got.key].present

\* C30 witness: a get at the very second a value set with the default
\* timeout expired returned None and removed the key
C30_Witness ==
    /\ got.op = "get"
    /\ sets[got.key].op = "set"
    /\ sets[got.key].value = "v"
    /\ sets[got.key].timeout = DefaultTimeout
    /\ clock = sets[got.key].at + DefaultTimeout
    /\ got.result = "None"
    /\ ~cache[got.key].present

----------------------------------------------------------------------------
(* The CSP specification: two request threads in CSP's post-hook.          *)

NextCSP ==
    \/ Run
    \/ /\ tokens < MaxNonces
       /\ \E t \in Threads : HookEnter(t)
    \/ \E t \in Threads : HookFilter(t)
    \/ \E t \in Threads : HookAppend(t)
    \/ \E t \in Threads : HookBuild(t)
    \/ \E t \in Threads : HookLeave(t)

SpecCSP == Init /\ [][NextCSP]_vars

\* the nonce sources of a list of sources
NoncesIn(list) == SelectSeq(list, IsNonce)

\* C38: under any interleaving of the request threads, the policy put in a
\* response's header has in script-src and in style-src exactly one nonce
\* source, the nonce exposed on that response as csp_nonce; and once no
\* thread is inside the hook, each stored rule list holds exactly one nonce
\* entry.
C38_OneNoncePerResponse ==
    /\ \A t \in Threads :
           cspHooks[t].pc = "done" =>
               \A k \in DOMAIN cspHooks[t].policy :
                   {x \in cspHooks[t].policy[k] : IsNonce(x)} = {cspHooks[t].exposed}
    /\ (tokens > 0 /\ \A t \in Threads : cspHooks[t].pc \in {"idle", "done"}) =>
           \A k \in DOMAIN csp.rules : Len(NoncesIn(csp.rules[k])) = 1

----------------------------------------------------------------------------
(* The emit specification: clients connect and their peers go away, and    *)
(* emit runs with no client thread touching the registry meanwhile.  The   *)
(* WebSocket specification: emit beside the client threads.                *)

NextEmit ==
    \/ /\ emitter.pc = "idle"
       /\ \E c \in WsClients : HandleRegister(c)
    \/ \E c \in WsClients : PeerCloses(c)
    \/ EmitStart
    \/ EmitNext
    \/ \E out \in {"sent", "TimeoutError"} \cup Caught : EmitSend(out)
    \/ EmitCheck
    \/ EmitDel
    \/ EmitDone
    \/ EmitReturn

SpecEmit == Init /\ [][NextEmit]_vars

NextWebSocket ==
    \/ \E c \in WsClients : HandleRegister(c)
    \/ \E c \in WsClients : PeerCloses(c)
    \/ \E c \in WsClients :
           \E out \in {"message", "handler raised", "no data", "ConnectionResetError"} :
               HandleRecv(c, out)
    \/ \E c \in WsClients : HandleCheck(c)
    \/ \E c \in WsClients : HandleDel(c)
    \/ \E c \in WsClients : HandleClose(c)
    \/ EmitStart
    \/ EmitNext
    \/ \E out \in {"sent", "OSError", "TimeoutError"} \cup Caught : EmitSend(out)
    \/ EmitCheck
    \/ EmitDel
    \/ EmitDone
    \/ EmitReturn

SpecWebSocket == Init /\ [][NextWebSocket]_vars

\* the clients the emit call called sendall for, and those whose send ended
\* in one of the two errors emit handles
TriedIn(e) == {e.tried[i][1] : i \in 1..Len(e.tried)}
FailedIn(e) == {e.tried[i][1] : i \in {j \in 1..Len(e.tried) : e.tried[j][2] \in Caught}}

\* C31: emit calls sendall for every client that is in the registry when it
\* is called, a failing client not keeping it from the others, and after it
\* the registry holds exactly those of them whose send did not fail with
\* BrokenPipeError or ConnectionResetError.
C31_EmitReachesAllAndDropsFailed ==
    emitter.pc \in {"done", "raised"} =>
        /\ TriedIn(emitter) = emitter.atCall
        /\ Live(clients) = emitter.atCall \ FailedIn(emitter)

\* C32: however the receive loop of a client thread ends, the thread ends
\* with the client's identity out of the registry and the socket closed, and
\* no exception leaves the thread.
C32_HandleAlwaysCleansUp ==
    \A c \in WsClients :
        handling[c].pc \in {"ended", "escaped"} =>
            /\ handling[c].pc = "ended"
            /\ c \notin Live(clients)
            /\ sockets[c].closed

\* C39: under any interleaving with client threads that register and remove
\* clients, emit returns without raising, and every client registered from
\* its call to its return had sendall called for it.
C39_EmitSafeBesideClientThreads ==
    emitter.pc \in {"done", "raised"} =>
        /\ emitter.pc = "done"
        /\ (emitter.atCall \cap Live(clients)) \subseteq TriedIn(emitter)

----------------------------------------------------------------------------
(* The pipeline specification: one WebPy.route route, any hooks.           *)

NextPipeline ==
    \/ /\ routes = <<>>
       /\ WebPyRoute(TUsers, <<"GET">>)
    \/ /\ Len(guards) + Len(filters) < MaxHooks
       /\ \E ret \in HookRets : Before(ret)
    \/ /\ Len(guards) + Len(filters) < MaxHooks
       /\ \E ret \in HookRets : After(ret)
    \/ Run
    \/ \E hb \in HandlerBehaviours : Process(PUsers42, "GET", TRUE, hb, "missing")

SpecPipeline == Init /\ [][NextPipeline]_vars

----------------------------------------------------------------------------
(* The dispatch specification: routes of every kind, error handlers, a     *)
(* hook or two, and requests that take every branch of process.            *)

TStaticFile == <<"/", "s", "t", "a", "t", "i", "c", "/", "<", "f", ":", "s", "t", "r", ">">>
PStaticA == <<"/", "s", "t", "a", "t", "i", "c", "/", "a">>
PUnknown == <<"/", "u", "n", "k", "n", "o", "w", "n">>

THealth == <<"/", "a", "p", "i", "/", "h", "e", "a", "l", "t", "h">>

DispatchTemplates == {TUsers, TStaticFile}
DispatchPaths == {PUsers42, PUsersAbc, PStaticA, PUnknown}
DispatchHooks == {"None", "raise"}

\* every path with every method and handler behaviour; the file outcomes for
\* the static path; one request whose Request object cannot be built
Request(p, m, reqOK, hb, file) ==
    [path |-> p, method |-> m, reqOK |-> reqOK, hb |-> hb, file |-> file]
DispatchRequests ==
    {Request(p, m, TRUE, hb, "missing") :
        p \in DispatchPaths, m \in Methods, hb \in HandlerBehaviours}
    \cup {Request(PStaticA, m, TRUE, "ok", file) :
        m \in Methods, file \in FileOutcomes}
    \cup {Request(PUnknown, "GET", FALSE, "ok", "missing")}

SetupOps ==
    Len(regLog) + Len(guards) + Len(filters)
        + Cardinality({s \in DOMAIN errors : errors[s] # "absent"})

Next ==
    \/ /\ SetupOps < MaxSetup
       /\ \E t \in DispatchTemplates : CoreRoute(t, <<"GET">>)
    \/ /\ SetupOps < MaxSetup
       /\ \E t \in DispatchTemplates : WebPyRoute(t, <<"GET">>)
    \/ /\ SetupOps < MaxSetup
       /\ \E t \in DispatchTemplates : BlueprintRoute(<<>>, t, <<"GET">>)
    \/ /\ SetupOps < MaxSetup
       /\ \E ret \in DispatchHooks : Before(ret)
    \/ /\ SetupOps < MaxSetup
       /\ \E ret \in DispatchHooks : After(ret)
    \/ /\ SetupOps < MaxSetup
       /\ \E st \in {404, 500}, beh \in ErrorBehaviours : Error(st, beh)
    \/ Exclude(THealth)
    \/ Reset
    \/ Run
    \/ \E rq \in DispatchRequests :
           Process(rq.path, rq.method, rq.reqOK, rq.hb, rq.file)

Spec == Init /\ [][Next]_vars

----------------------------------------------------------------------------
(* The static specification: requests under /static/ on a file system with *)
(* files inside and outside the static directory.                          *)

PStaticUpK == StaticPrefix \o <<".", ".", "/", "k">>
PStaticDirUpA == StaticPrefix \o <<"c", "/", ".", ".", "/", "a">>
PStaticAbsolute == StaticPrefix \o <<"/", "e", "/", "p">>
PStaticUpUp == StaticPrefix \o <<".", ".", "/", ".", ".", "/", "e", "/", "p">>
PStaticNone == StaticPrefix \o <<"x">>
PStaticDir == StaticPrefix \o <<"c">>
PStaticThrough == StaticPrefix \o <<"x", "/", ".", ".", "/", "a">>

StaticPaths ==
    {PStaticA, PStaticUpK, PStaticDirUpA, PStaticAbsolute, PStaticUpUp, PStaticNone,
     PStaticDir, PStaticThrough}

NextStatic ==
    \/ /\ routes = <<>>
       /\ CoreRoute(TUsers, <<"GET">>)
    \/ \E st \in {404, 500}, beh \in ErrorBehaviours : Error(st, beh)
    \/ Run
    \/ \E p \in StaticPaths, m \in Methods : Process(p, m, TRUE, "ok", OpenOutcome(p))

SpecStatic == Init /\ [][NextStatic]_vars

----------------------------------------------------------------------------
(* Vocabulary of the claims about one dispatch.                            *)

\* the calls of the latest dispatch made to functions named f
CallsTo(f) == SelectSeq(last.calls, LAMBDA e : e.f = f)
Called(f) == \E i \in 1..Len(last.calls) : last.calls[i].f = f

\* the latest call was a dispatch that got as far as route matching
Dispatched == last.op = "process" /\ ~Called("Request")

\* C2: when some entry structurally matches the request path and no such
\* entry permits the method, the dispatch ends with one 405 response, not a
\* 404, and the static-asset path is not taken.
C2_WrongMethodIs405 ==
    (/\ Dispatched
     /\ StructuralHits(last.path) # {}
     /\ \A i \in StructuralHits(last.path) : ~InList(last.method, routes[i].methods))
    => /\ Len(last.sent) = 1
       /\ last.sent[1].status = 405
       /\ ~Called("deliver")

\* C4: the value handed to the handler for an int-typed placeholder is an
\* integer, and the response of a handler that ran is sent with status 200.
C4_IntParamIsInteger ==
    (Dispatched /\ last.found /\ Called("handler")) =>
        /\ \A ph \in TypedPlaceholders(routes[ReturnedEntry].path) :
               ph[2] = IntText =>
                   \A pv \in last.params : pv[1] = ph[1] => pv[2].type = "int"
        /\ \A i \in 1..Len(last.calls) :
               (last.calls[i].f = "handler" /\ last.calls[i].out = "ok" /\ ~Called("except"))
                   => last.sent = <<Sent(200, "Response.send", last.sent[1].marks)>>

\* C6: no exception leaves WebPyCore.process, whether it was raised while
\* the request was built, the route matched, the handler or a hook run, or
\* while the error response was produced.
C6_NoExceptionEscapes ==
    last.op = "process" => last.raised # "escaped"

\* C10: the middleware pipeline runs exactly once for every dispatched
\* request, whichever path the dispatch takes.
C10_PipelineOncePerRequest ==
    last.op = "process" => Len(CallsTo("Middleware.process")) = 1

\* the reserved static-asset prefix the claims speak of
ReservedPrefix == <<"/", "s", "t", "a", "t", "i", "c", "/">>
UnderReserved(path) == StartsWith(path, ReservedPrefix)

\* the latest dispatch called deliver and open() had the given outcome
Delivered(file) == \E i \in 1..Len(last.calls) : last.calls[i] = Event("deliver", 0, file)

\* the error report for status st began: the default response with that
\* status is the one thing sent when no custom handler is registered, the
\* custom handler for st is called otherwise
Reported(st, calls, sent) ==
    IF errors[st] = "absent"
    THEN calls = <<>> /\ sent = <<Sent(st, "send_error", <<>>)>>
    ELSE Len(calls) >= 1 /\ calls[1] = Event("errorhandler", st, errors[st])

C14_DeliverOnlyWithoutStructuralMatch ==
    (Dispatched /\ Called("deliver")) =>
        /\ StructuralHits(last.path) = {}
        /\ UnderReserved(last.path)
        /\ Delivered("missing") => Reported(404, Tail(last.calls), last.sent)

\* C15: when the custom error handler for status S raises while S is being
\* reported, no exception leaves the dispatch, no other error handler is
\* called, and the default response for S is the one response sent.
C15_RaisingErrorHandlerFallsBack ==
    last.op = "process" =>
        \A i \in 1..Len(last.calls) :
            (last.calls[i].f = "errorhandler" /\ last.calls[i].out = "raise") =>
                /\ last.raised # "escaped"
                /\ \A j \in 1..Len(last.calls) :
                       last.calls[j].f = "errorhandler" => j = i
                /\ last.sent = <<Sent(last.calls[i].n, "send_error", <<>>)>>

\* the latest dispatch ended in InternalError: the except clause of process
\* ran, or deliver could not read the file; or in NotFound: no route took the
\* request and it was no static path, or the static file is missing
EndedInternalError == last.op = "process" /\ (Called("except") \/ Delivered("oserror"))
EndedNotFound ==
    /\ Dispatched
    /\ ~EndedInternalError
    /\ ~last.found
    /\ (Called("deliver") => Delivered("missing"))

\* C16: a dispatch that ends in NotFound or InternalError sends one response
\* whose status is 404 or 500 respectively, with no custom error handler and
\* with one, whatever that handler writes or does not write to the response.
C16_ErrorStatusAlwaysSent ==
    (\A i \in 1..Len(last.calls) :
        ~(last.calls[i].f = "errorhandler" /\ last.calls[i].out = "raise"))
    => /\ EndedInternalError => (Len(last.sent) = 1 /\ last.sent[1].status = 500)
       /\ EndedNotFound => (Len(last.sent) = 1 /\ last.sent[1].status = 404)

\* every handler call of the latest dispatch that raised is followed at once
\* by the except clause of process and the report of status 500
HandlerRaiseIsReported ==
    \A i \in 1..Len(last.calls) :
        (last.calls[i].f = "handler" /\ last.calls[i].out = "raise") =>
            /\ i < Len(last.calls)
            /\ last.calls[i + 1] = Event("except", 500, "warn")
            /\ Reported(500, SubSeq(last.calls, i + 2, Len(last.calls)), last.sent)

\* C24: a handler that raises takes its request, and only it, to the report
\* of status 500, and no dispatch, however it ends, changes the route table,
\* the hook lists or the error handlers, or stops the server: the next
\* request meets the registries the failed one met.
C24_DispatchLeavesRegistriesAlone ==
    [][last'.op = "process" =>
           /\ routes' = routes
           /\ guards' = guards
           /\ filters' = filters
           /\ errors' = errors
           /\ serving' = serving
           /\ HandlerRaiseIsReported']_vars

\* C24 witness: a handler raised, the default 500 response went out, and the
\* server still serves with its route table
C24_Witness ==
    /\ last.op = "process"
    /\ serving
    /\ routes # <<>>
    /\ \E i \in 1..Len(last.calls) : last.calls[i] = Event("handler", last.handler.id, "raise")
    /\ last.sent = <<Sent(500, "send_error", <<>>)>>

\* C21: a route can be marked as excluded from the pipeline: the marking
\* succeeds and registers the route, a dispatch to an excluded route calls
\* the handler and no pre-hook and no post-hook, and a dispatch to any other
\* WebPy.route route runs the pipeline.
C21_ExcludedRouteBypassesPipeline ==
    /\ last.op = "exclude" =>
           /\ last.raised = "none"
           /\ \E i \in 1..Len(routes) : routes[i].path = last.path
    /\ (Dispatched /\ last.found /\ last.handler.kind = "excluded") =>
           /\ Called("handler")
           /\ ~Called("guard")
           /\ ~Called("filter")
    /\ (Dispatched /\ last.found /\ last.handler.kind = "webpy") =>
           Called("Middleware.process")

\* C22: the hook lists have a reset operation, and after it the pre-hook
\* list and the post-hook list are both empty.
C22_ResetClearsBothLists ==
    last.op = "reset" =>
        /\ last.raised = "none"
        /\ guards = <<>>
        /\ filters = <<>>

\* C35: every call of WebPyCore.process ends with exactly one response
\* started and finished, on every path it can take: not none, not two.
C35_ExactlyOneResponse ==
    last.op = "process" => Len(last.sent) = 1

----------------------------------------------------------------------------
(* The pre-hook and post-hook chains.                                      *)

\* the hooks of a list that end its chain: those returning exactly False and
\* those raising
Stoppers(hooks) == {i \in 1..Len(hooks) : hooks[i] \in {"False", "raise"}}
\* how many hooks of the list a run of its chain calls
Reach(hooks) ==
    IF Stoppers(hooks) = {} THEN Len(hooks)
    ELSE CHOOSE i \in Stoppers(hooks) : \A j \in Stoppers(hooks) : i <= j
\* what the chain returns
ChainResult(hooks) ==
    IF Stoppers(hooks) = {} THEN "True" ELSE hooks[Reach(hooks)]

\* the calls are, in order, hooks 1..k of the list
IsPrefixRun(callseq, k) ==
    /\ Len(callseq) = k
    /\ \A i \in 1..k : callseq[i].n = i

\* C7: Middleware.process calls the pre-hooks in registration order, each at
\* most once, up to and including the first one that returns exactly False
\* (or raises); None, True and 0 let the chain continue; it returns False
\* when a hook returned False and True when every hook ran without one.
C7_PreHooksInOrderUntilFalse ==
    (last.op = "process" /\ Called("Middleware.process")) =>
        /\ IsPrefixRun(CallsTo("guard"), Reach(guards))
        /\ \A i \in 1..Len(CallsTo("guard")) : CallsTo("guard")[i].out = guards[i]
        /\ CallsTo("Middleware.process") =
               <<Event("Middleware.process", 0, ChainResult(guards))>>

\* C7 witness: three pre-hooks, the first returning None or 0, the second
\* False; the dispatch called the first two only
C7_Witness ==
    /\ last.op = "process"
    /\ Len(guards) = 3
    /\ guards[1] \in {"None", "Zero"}
    /\ guards[2] = "False"
    /\ Len(CallsTo("guard")) = 2
    /\ CallsTo("Middleware.process")[1].out = "False"

\* C8: when a pre-hook returns False, the handler is not invoked, no later
\* pre-hook is invoked and no post-hook is invoked for that request.
C8_AbortSkipsHandlerAndPostHooks ==
    \A i \in 1..Len(last.calls) :
        (last.op = "process" /\ last.calls[i].f = "guard" /\ last.calls[i].out = "False")
        => /\ ~Called("handler")
           /\ ~Called("filter")
           /\ ~Called("Middleware.filter")
           /\ \A j \in (i + 1)..Len(last.calls) : last.calls[j].f # "guard"

\* C8 witness: three pre-hooks, the second returning False, and a post-hook;
\* the dispatch is over and the response went out
C8_Witness ==
    /\ last.op = "process"
    /\ Len(guards) = 3
    /\ guards[1] # "raise"
    /\ guards[2] = "False"
    /\ Len(filters) = 1
    /\ Len(CallsTo("guard")) = 2
    /\ Len(last.sent) = 1

\* C9: once the handler has returned normally, Middleware.filter calls the
\* post-hooks in registration order up to and including the first that
\* returns exactly False (or raises); unless a post-hook raised, the response
\* object is then sent once, with what the pre-hooks, the handler and the
\* executed post-hooks wrote to it.
C9_PostHooksThenSend ==
    \A i \in 1..Len(last.calls) :
        (last.op = "process" /\ last.calls[i].f = "handler" /\ last.calls[i].out = "ok")
        => /\ Len(CallsTo("Middleware.filter")) = 1
           /\ IsPrefixRun(CallsTo("filter"), Reach(filters))
           /\ ChainResult(filters) # "raise" =>
                  /\ last.raised = "none"
                  /\ last.sent =
                         <<Sent(200, "Response.send",
                                [g \in 1..Len(guards) |-> <<"guard", g>>]
                                    \o <<<<"handler", last.handler.id>>>>
                                    \o [f \in 1..Reach(filters) |-> <<"filter", f>>])>>

\* C9 witness: the first of two post-hooks returned False after a handler
\* that returned normally, and the response went out
C9_Witness ==
    /\ last.op = "process"
    /\ Len(filters) >= 2
    /\ filters[1] = "False"
    /\ Called("handler")
    /\ Len(CallsTo("filter")) = 1
    /\ Len(last.sent) = 1
    /\ last.sent[1].status = 200

\* the stage of a dispatch a call belongs to: the pre-hooks, the handler, the
\* post-hooks, the error report
Stage(e) ==
    IF e.f \in {"Middleware.process", "guard"} THEN 1
    ELSE IF e.f = "handler" THEN 2
    ELSE IF e.f \in {"Middleware.filter", "filter"} THEN 3
    ELSE 4

\* what the hooks and the handler that returned wrote to the response, in
\* the order of their calls
WritesOf(callseq) ==
    LET wrote == SelectSeq(callseq, LAMBDA e : /\ e.f \in {"guard", "handler", "filter"}
                                              /\ e.out # "raise")
    IN [i \in 1..Len(wrote) |-> <<wrote[i].f, wrote[i].n>>]

\* C25: in a dispatch to a matched WebPy.route route the calls come in the
\* order pre-hooks, handler, post-hooks; the handler is called at most once,
\* for the matched route and with the parameters the match extracted; and
\* the one response sent by Response.send (when no exception took the
\* dispatch to the error report) carries everything the post-hooks wrote, so
\* it is not sent before they have finished.
C25_MatchPreHandlerPostSend ==
    (last.op = "process" /\ last.found /\ last.handler.kind = "webpy") =>
        /\ \A i, j \in 1..Len(last.calls) :
               i < j => Stage(last.calls[i]) <= Stage(last.calls[j])
        /\ Len(CallsTo("handler")) <= 1
        /\ \A i \in 1..Len(CallsTo("handler")) : CallsTo("handler")[i].n = last.handler.id
        /\ \E k \in 1..Len(routes) :
               /\ routes[k].handler = last.handler
               /\ last.params = GroupDict(PatternMatch(routes[k].pattern, last.path).caps)
        /\ Len(last.sent) <= 1
        /\ \A k \in 1..Len(last.sent) :
               (last.sent[k].via = "Response.send" /\ ~Called("except")) =>
                   last.sent[k].marks = WritesOf(last.calls)

\* C25 witness: a dispatch with a pre-hook, the handler and a post-hook, all
\* of which wrote to the response that was sent
C25_Witness ==
    /\ last.op = "process"
    /\ last.params # {}
    /\ Len(last.sent) = 1
    /\ Len(last.sent[1].marks) >= 3
    /\ last.sent[1].marks[1][1] = "guard"
    /\ last.sent[1].marks[Len(last.sent[1].marks)][1] = "filter"
    /\ \E i \in 1..Len(last.sent[1].marks) : last.sent[1].marks[i][1] = "handler"

\* C33: when a pre-hook returns False in a dispatch to a WebPy.route route,
\* nothing signals an error (the except clause of process does not run, no
\* error handler is called, no error response is sent, no exception leaves)
\* and the one response sent is the response object as the pre-hooks that
\* ran left it, with status 200.
C33_AbortIsNotAnError ==
    \A i \in 1..Len(last.calls) :
        (/\ last.op = "process"
         /\ last.handler.kind = "webpy"
         /\ last.calls[i].f = "guard"
         /\ last.calls[i].out = "False")
        => /\ ~Called("except")
           /\ ~Called("errorhandler")
           /\ last.raised = "none"
           /\ last.sent = <<Sent(200, "Response.send",
                                 [g \in 1..last.calls[i].n |-> <<"guard", g>>])>>

\* C33 witness: the second of two pre-hooks returned False and the response
\* carrying what both wrote went out with status 200
C33_Witness ==
    /\ last.op = "process"
    /\ Len(guards) >= 2
    /\ guards[2] = "False"
    /\ Len(CallsTo("guard")) = 2
    /\ last.sent = <<Sent(200, "Response.send", <<<<"guard", 1>>, <<"guard", 2>>>>)>>

\* C34: in a dispatch to a WebPy.route route, when the handler raises no
\* post-hook is called, and when a pre-hook raises neither the handler nor a
\* post-hook is called; either way the except clause of process runs next
\* and status 500 is reported.
C34_NoPostHookAfterRaise ==
    \A i \in 1..Len(last.calls) :
        (/\ last.op = "process"
         /\ last.handler.kind = "webpy"
         /\ last.calls[i].f \in {"handler", "guard"}
         /\ last.calls[i].out = "raise")
        => /\ ~Called("filter")
           /\ ~Called("Middleware.filter")
           /\ last.calls[i].f = "guard" => ~Called("handler")
           /\ i < Len(last.calls)
           /\ last.calls[i + 1] = Event("except", 500, "warn")
           /\ Reported(500, SubSeq(last.calls, i + 2, Len(last.calls)), last.sent)

\* C34 witness: with a post-hook registered, the handler raised after a
\* pre-hook had run, and the default 500 response went out
C34_Witness ==
    /\ last.op = "process"
    /\ Len(filters) >= 1
    /\ Len(guards) >= 1
    /\ Called("guard")
    /\ \E i \in 1..Len(last.calls) : last.calls[i] = Event("handler", last.handler.id, "raise")
    /\ last.sent = <<Sent(500, "send_error", <<>>)>>

\* a location inside the static directory
InsideStatic(loc) == Len(loc) >= Len(StaticDir) /\ SubSeq(loc, 1, Len(StaticDir)) = StaticDir

\* C37: for every request path under /static/, with ".." among its segments
\* or not, the file deliver opens lies inside the static directory, or the
\* request is answered 404.
C37_DeliverStaysInsideStatic ==
    (Dispatched /\ Called("deliver")) =>
        \/ InsideStatic(Opened(last.path))
        \/ /\ Delivered("missing")
           /\ Reported(404, Tail(last.calls), last.sent)

=============================================================================
